---- MODULE Spec2Model ----
(***************************************************************************)
(* A model of the SMTP client engine of rust-smtp / lettre:                *)
(* SmtpConnection (transport/smtp/client/connection.rs) driven one write   *)
(* or one read at a time against a server that may answer anything, with   *)
(* the Response, Code and ServerInfo values it relies on (Spec); the reply *)
(* parsers, ResponseParser and parse_response, reading the same lines      *)
(* (SpecParser); Response::has_code on any Code (SpecCode).                *)
(***************************************************************************)
EXTENDS Integers, Sequences, FiniteSets, TLC

VARIABLES
    pc,          \* position inside the running operation ("idle" between calls)
    op,          \* the operation running, or the last one that ran
    panic,       \* SmtpConnection.panic
    server_info, \* SmtpConnection.server_info
    ehlo_reply,  \* the message of the latest reply ehlo() succeeded with, if any
    encrypted,   \* stream.is_encrypted()
    shut,        \* shutdown(Both) was called on the stream
    wire,        \* what the running operation has written to the stream so far
    awaiting,    \* "pending": a command is written and read_response has not returned
                 \* "failed": read_response returned without a complete reply
                 \* "no": the reply of the last command was read completely
    abort_quit,  \* what became of the QUIT of abort() in the running operation
    shutdowns,   \* shutdown calls of the running operation
    pre_panic,   \* panic when the running operation was called
    result,      \* what the last operation returned
    err,         \* the error try_smtp! holds while abort() runs
    failed_at,   \* the step of the running operation whose error was caught
    aborts,      \* abort() calls still to be made for that error
    envelope,    \* send: the envelope argument
    email_ascii, \* send: email.is_ascii()
    idx,         \* send: recipients already accepted by the RCPT loop
    data_reply,  \* send: the code of the reply read for DATA
    accepted,    \* positive replies read by the running operation
    challenges,  \* auth: the local counter
    state,       \* auth: the SASL state ("running" / "finished")
    response,    \* auth: the local response (its code)
    resp_code,   \* has_code: the Code of the Response it is called on
    asked,       \* has_code: its argument
    answer,      \* has_code: what it returned ("none" before the call)
    stream,      \* parsers: the lines the server sends before the stream ends
    parser,      \* get_reply: its ResponseParser
    taken,       \* get_reply: lines it has read from the stream
    more,        \* get_reply: what read_line said of the last line
    returned,    \* get_reply: what it returned
    buffered,    \* read_response: lines in its buffer
    parsed,      \* read_response: what it returned
    ehlo_message,\* from_response: the message of the Response it is given
    info_out,    \* from_response: what it returned
    body,        \* the message content handed to message()
    stuffed,     \* the message content after escape_dot or after the codec
    data_wire,   \* the bytes message() has written to the stream
    data_writer, \* the client that wrote them, or none
    env_call,    \* the call of Envelope::new or Envelope::try_from under test
    env_out,     \* what that call returned
    dkim_body,   \* the body given to dkim_canonicalize_body
    canonicalization,\* the DkimCanonicalizationType given
    canon_out,   \* what dkim_canonicalize_body returned, and what it returned for that
    headers_list,\* the names of the headers to sign, in the configured order
    mail_headers,\* the Headers of the message, in their order
    header_canon,\* the DkimCanonicalizationType given for the headers
    signed_out,  \* what dkim_canonicalize_headers returned
    dkim_config, \* the DkimConfig the caller holds, once one was made
    dkim_panicked,\* an unwrap() of DkimSigningKey::new has panicked
    dkim_message,\* the headers and the body of the Message
    dkim_unsigned,\* the Message as it was when dkim_sign was called
    client_stream,\* Client.stream: whether it is Some, and the deadlines of the stream
    conn_stream, \* the deadlines of the stream of an SmtpConnection
    client_last, \* the last call on the Client or on set_timeout, and what it returned
    the_headers, \* Headers.headers: Vec<HeaderValue>
    headers_last \* the last call on the Headers, the headers before it and what it returned

connVars == <<server_info, ehlo_reply, encrypted, shut>>
ctlVars == <<pc, panic, err, failed_at, aborts, result>>
histVars == <<wire, awaiting, abort_quit, shutdowns, pre_panic, accepted>>
sendVars == <<envelope, email_ascii, idx, data_reply>>
authVars == <<challenges, state, response>>
sessionVars == <<op, ctlVars, connVars, histVars, sendVars, authVars>>
codeVars == <<resp_code, asked, answer>>
parserVars == <<stream, parser, taken, more, returned, buffered, parsed>>
infoVars == <<ehlo_message, info_out>>
dataVars == <<body, stuffed, data_wire, data_writer>>
envelopeVars == <<env_call, env_out>>
canonVars == <<dkim_body, canonicalization, canon_out>>
signedVars == <<headers_list, mail_headers, header_canon, signed_out>>
dkimVars == <<dkim_config, dkim_panicked, dkim_message, dkim_unsigned>>
clientVars == <<client_stream, conn_stream, client_last>>
headersVars == <<the_headers, headers_last>>
benchVars == <<codeVars, parserVars, infoVars, dataVars, envelopeVars, canonVars, signedVars, dkimVars, clientVars, headersVars>>
exceptCodeVars == <<sessionVars, parserVars, infoVars, dataVars, envelopeVars, canonVars, signedVars, dkimVars, clientVars, headersVars>>
exceptParserVars == <<sessionVars, codeVars, infoVars, dataVars, envelopeVars, canonVars, signedVars, dkimVars, clientVars, headersVars>>
exceptInfoVars == <<sessionVars, codeVars, parserVars, dataVars, envelopeVars, canonVars, signedVars, dkimVars, clientVars, headersVars>>
exceptDataVars == <<sessionVars, codeVars, parserVars, infoVars, envelopeVars, canonVars, signedVars, dkimVars, clientVars, headersVars>>
exceptEnvelopeVars == <<sessionVars, codeVars, parserVars, infoVars, dataVars, canonVars, signedVars, dkimVars, clientVars, headersVars>>
exceptCanonVars == <<sessionVars, codeVars, parserVars, infoVars, dataVars, envelopeVars, signedVars, dkimVars, clientVars, headersVars>>
exceptSignedVars == <<sessionVars, codeVars, parserVars, infoVars, dataVars, envelopeVars, canonVars, dkimVars, clientVars, headersVars>>
exceptDkimVars == <<sessionVars, codeVars, parserVars, infoVars, dataVars, envelopeVars, canonVars, signedVars, clientVars, headersVars>>
exceptClientVars == <<sessionVars, codeVars, parserVars, infoVars, dataVars, envelopeVars, canonVars, signedVars, dkimVars, headersVars>>
exceptHeadersVars == <<sessionVars, codeVars, parserVars, infoVars, dataVars, envelopeVars, canonVars, signedVars, dkimVars, clientVars>>
vars == <<sessionVars, benchVars>>

----------------------------------------------------------------------------
(* Bounds *)

\* recipients of an envelope
MaxRcpt == 2

\* the largest detail (a u8) of the codes has_code is tried on
MaxDetail == 10

\* the largest argument has_code is tried with
MaxAsked == 599

\* lines the server sends before it closes the stream
MaxLines == 3

\* capability lines of an EHLO reply given to from_response
MaxCaps == 2

\* mechanism names on an AUTH line
MaxMechs == 2

----------------------------------------------------------------------------
(* Response codes: transport/smtp/response.rs *)

Code(s, c, d) == [severity |-> s, category |-> c, detail |-> d]

NoCode == Code(0, 0, 0)

\* the Code a three-digit reply code parses to
CodeOf(n) == Code(n \div 100, (n \div 10) % 10, n % 10)

\* the characters of the decimal digits
Digits == <<"0", "1", "2", "3", "4", "5", "6", "7", "8", "9">>

RECURSIVE u16_string(_)
\* format!("{}", n) of an unsigned integer: its decimal digits, without
\* leading zeros
u16_string(n) ==
    IF n < 10 THEN <<Digits[n + 1]>>
    ELSE Append(u16_string(n \div 10), Digits[(n % 10) + 1])

\* Code::code(): format!("{}{}{}", severity, category, detail), the detail
\* being a u8 written in decimal
code_string(code) ==
    <<Digits[code.severity + 1], Digits[code.category + 1]>> \o u16_string(code.detail)

\* Response::is_positive
is_positive(code) == code.severity \in {2, 3}

\* Response::has_code
has_code(code, n) == code_string(code) = u16_string(n)

----------------------------------------------------------------------------
(* Reply parsers.  A line is the sequence of its bytes, one character      *)
(* each, without its CRLF.                                                 *)

IsDigit(ch) == \E d \in 1..10 : Digits[d] = ch

DigitValue(ch) == (CHOOSE d \in 1..10 : Digits[d] = ch) - 1

\* Code::from_str: three bytes, "2".."5", "0".."5" and a u8; NoCode for an
\* error
Code_from_str(s) ==
    IF /\ Len(s) = 3
       /\ IsDigit(s[1]) /\ DigitValue(s[1]) \in 2..5
       /\ IsDigit(s[2]) /\ DigitValue(s[2]) \in 0..5
       /\ IsDigit(s[3])
    THEN Code(DigitValue(s[1]), DigitValue(s[2]), DigitValue(s[3]))
    ELSE NoCode

\* ResponseParser::default()
ResponseParser_default == [code |-> NoCode, message |-> << >>]

\* mutant: the code of a later line is not compared
code_unchecked(p, given) == FALSE

\* read_line: the parser has a code and the line starts with another
code_changed(p, given) == p.code # NoCode /\ code_string(p.code) # given

\* ResponseParser::read_line: Err, or Ok(more lines follow) and the parser
\* after the line
read_line(p, line) ==
    LET given == SubSeq(line, 1, 3)
        failed(why) == [ok |-> FALSE, more |-> FALSE, parser |-> p, why |-> why]
    IN  IF Len(line) < 3 THEN failed("Wrong code length (should be 3 digit)")
        ELSE IF code_changed(p, given)
        THEN failed("Response code has changed during a reponse")
        ELSE IF p.code = NoCode /\ Code_from_str(given) = NoCode
        THEN failed("Could not parse response code")
        ELSE LET c == IF p.code = NoCode THEN Code_from_str(given) ELSE p.code IN
             IF Len(line) > 4
             THEN [ok |-> TRUE, more |-> line[4] = "-", why |-> "",
                   parser |-> [code |-> c,
                               message |-> Append(p.message, SubSeq(line, 5, Len(line)))]]
             ELSE [ok |-> TRUE, more |-> FALSE, why |-> "",
                   parser |-> [code |-> c, message |-> p.message]]

\* the nom parse_code: a severity "2".."5", a category "0".."5", a detail
\* "0".."9" at the head of the line; NoCode for an error
parse_code(line) ==
    IF /\ Len(line) >= 3
       /\ IsDigit(line[1]) /\ DigitValue(line[1]) \in 2..5
       /\ IsDigit(line[2]) /\ DigitValue(line[2]) \in 0..5
       /\ IsDigit(line[3])
    THEN Code(DigitValue(line[1]), DigitValue(line[2]), DigitValue(line[3]))
    ELSE NoCode

\* the line many0! takes: a code, '-', the text up to CRLF
continuation_line(line) == parse_code(line) # NoCode /\ Len(line) >= 4 /\ line[4] = "-"

\* the final line: a code, then CRLF or ' ' and the text up to CRLF
final_line(line) ==
    parse_code(line) # NoCode /\ (Len(line) = 3 \/ (Len(line) >= 4 /\ line[4] = " "))

RECURSIVE many0(_, _)
\* the lines many0! takes from line i on: it stops at the first line that
\* is no continuation line
many0(lines, i) ==
    IF i <= Len(lines) /\ continuation_line(lines[i]) THEN many0(lines, i + 1) ELSE i - 1

Parsed(kind, code, message, why) ==
    [kind |-> kind, code |-> code, message |-> message, why |-> why]

NotParsed == Parsed("none", NoCode, << >>, "")

\* mutant: a buffer of continuation lines is parsed as a reply
parse_response_without_final(lines) ==
    LET k == many0(lines, 1) IN
    IF k = Len(lines)
    THEN IF k = 0 THEN Parsed("incomplete", NoCode, << >>, "")
         ELSE Parsed("response", parse_code(lines[k]),
                     [i \in 1..k |-> SubSeq(lines[i], 5, Len(lines[i]))], "")
    ELSE Parsed("error", NoCode, << >>, "parse")

\* parse_response on a buffer of whole lines: Incomplete when many0! took
\* them all, an error when the next line is no final line or a code differs,
\* else the Response; what follows the final line is left over
parse_response(lines) ==
    LET k == many0(lines, 1) IN
    IF k = Len(lines) THEN Parsed("incomplete", NoCode, << >>, "")
    ELSE LET last == lines[k + 1]
             last_code == parse_code(last)
             texts == [i \in 1..k |-> SubSeq(lines[i], 5, Len(lines[i]))]
         IN  IF ~final_line(last) THEN Parsed("error", NoCode, << >>, "parse")
             ELSE IF \E i \in 1..k : parse_code(lines[i]) # last_code
             THEN Parsed("error", NoCode, << >>, "parse")
             ELSE Parsed("response", last_code,
                         IF Len(last) >= 4
                         THEN Append(texts, SubSeq(last, 5, Len(last))) ELSE texts,
                         "")

\* no parser is under test
NoParse ==
    /\ stream = << >>
    /\ parser = ResponseParser_default
    /\ taken = 0
    /\ more = "none"
    /\ returned = NotParsed
    /\ buffered = 0
    /\ parsed = NotParsed

----------------------------------------------------------------------------
(* ServerInfo: transport/smtp/extension.rs.  A reply's message is a        *)
(* sequence of lines, a line the sequence of its whitespace-separated      *)
(* words.                                                                  *)

\* Response::first_word
first_word(message) ==
    IF message = << >> THEN "none"
    ELSE IF message[1] = << >> THEN "none" ELSE message[1][1]

\* mutant: only the first mechanism of an AUTH line is looked at
auth_features_first_only(line) ==
    {IF line[i] = "PLAIN" THEN "Authentication(Plain)" ELSE "Authentication(CramMd5)" :
        i \in {j \in 2..Len(line) : j = 2 /\ line[j] \in {"PLAIN", "CRAM-MD5"}}}

\* the mechanisms an AUTH line enables: PLAIN and CRAM-MD5, the others are skipped
auth_features(line) ==
    {IF line[i] = "PLAIN" THEN "Authentication(Plain)" ELSE "Authentication(CramMd5)" :
        i \in {j \in 2..Len(line) : line[j] \in {"PLAIN", "CRAM-MD5"}}}

\* the features one line of the reply inserts (the match on splitted[0])
line_features(line) ==
    CASE line[1] = "8BITMIME" -> {"EightBitMime"}
      [] line[1] = "SMTPUTF8" -> {"SmtpUtfEight"}
      [] line[1] = "STARTTLS" -> {"StartTls"}
      [] line[1] = "AUTH" -> auth_features(line)
      [] OTHER -> {}

\* ServerInfo::default()
default_server_info == [name |-> "", features |-> {}]

\* ServerInfo::from_response: "err" without a first word, "panic" when
\* splitted[0] indexes a line without words, else the ServerInfo
from_response(message) ==
    IF first_word(message) = "none"
    THEN [outcome |-> "err", info |-> default_server_info]
    ELSE IF \E i \in 1..Len(message) : message[i] = << >>
    THEN [outcome |-> "panic", info |-> default_server_info]
    ELSE [outcome |-> "ok",
          info |-> [name |-> first_word(message),
                    features |-> UNION {line_features(message[i]) : i \in 1..Len(message)}]]

\* no EHLO reply yet
NoEhlo == [seen |-> FALSE, message |-> << >>]

\* mutant: the features of the new reply are added to those held
merge_server_info(old, new) ==
    [name |-> new.name, features |-> old.features \cup new.features]

\* self.server_info = ...: the ServerInfo held is dropped for the new one
replace_server_info(old, new) == new

\* from_response was not called
NoInfo == [outcome |-> "none", info |-> default_server_info]

NoInfoCall == ehlo_message = << >> /\ info_out = NoInfo

\* ServerInfo::supports_feature
supports_feature(info, keyword) == keyword \in info.features

----------------------------------------------------------------------------
(* The message content on the wire. A string is the sequence of its      *)
(* bytes, each a one-character string.                                    *)

CR == "\r"
LF == "\n"
Dot == "."

\* transport::smtp::CRLF
CRLF == <<CR, LF>>

\* transport::smtp::MESSAGE_ENDING
MESSAGE_ENDING == <<CR, LF, Dot, CR, LF>>

starts_with(str, pat) ==
    Len(str) >= Len(pat) /\ SubSeq(str, 1, Len(pat)) = pat

ends_with(str, pat) ==
    Len(str) >= Len(pat) /\ SubSeq(str, Len(str) - Len(pat) + 1, Len(str)) = pat

\* str::replace: every match of pat, found from left to right without
\* overlap, becomes to
RECURSIVE str_replace(_, _, _)
str_replace(str, pat, to) ==
    IF Len(str) < Len(pat) THEN str
    ELSE IF starts_with(str, pat)
         THEN to \o str_replace(SubSeq(str, Len(pat) + 1, Len(str)), pat, to)
         ELSE <<Head(str)>> \o str_replace(Tail(str), pat, to)

\* mutant: a '.' after CR is left alone
escape_dot_after_lf_only(str) ==
    str_replace(IF starts_with(str, <<Dot>>) THEN <<Dot>> \o str ELSE str,
                <<LF, Dot>>, <<LF, Dot, Dot>>)

\* mutant: only a '.' at the start of the content is doubled
escape_dot_start_only(str) ==
    IF starts_with(str, <<Dot>>) THEN <<Dot>> \o str ELSE str

\* escape_dot
escape_dot(str) ==
    str_replace(
        str_replace(IF starts_with(str, <<Dot>>) THEN <<Dot>> \o str ELSE str,
                    <<CR, Dot>>, <<CR, Dot, Dot>>),
        <<LF, Dot>>, <<LF, Dot, Dot>>)

\* the body with every LF that no CR precedes written as CRLF
RECURSIVE normalize_line_endings(_, _)
normalize_line_endings(str, after_cr) ==
    IF str = << >> THEN << >>
    ELSE IF Head(str) = LF /\ ~after_cr
         THEN CRLF \o normalize_line_endings(Tail(str), FALSE)
         ELSE <<Head(str)>> \o normalize_line_endings(Tail(str), Head(str) = CR)

\* the body with a '.' put before every '.' that starts a line
RECURSIVE stuff_lines(_, _)
stuff_lines(str, at_start) ==
    IF str = << >> THEN << >>
    ELSE (IF at_start /\ Head(str) = Dot THEN <<Dot, Dot>> ELSE <<Head(str)>>)
             \o stuff_lines(Tail(str), Head(str) = LF)

\* ClientCodec::encode: line endings normalised, then dots stuffed
codec_encode(str) == stuff_lines(normalize_line_endings(str, FALSE), TRUE)

\* message() was not called
NoMessage ==
    /\ body = << >>
    /\ stuffed = << >>
    /\ data_wire = << >>
    /\ data_writer = "none"

----------------------------------------------------------------------------
(* DKIM canonicalization of the body: message/dkim.rs *)

Space == " "
Tab == "\t"

\* what [\t ] matches
Blanks == {Space, Tab}

\* str without the run of CRLFs it ends with
RECURSIVE without_trailing_crlfs(_)
without_trailing_crlfs(str) ==
    IF ends_with(str, CRLF)
    THEN without_trailing_crlfs(SubSeq(str, 1, Len(str) - 2))
    ELSE str

\* mutant: a CRLF is added whatever the body ends with
RE_replace_appending(str) == str \o CRLF

\* RE.replace(body, "\r\n") with RE = "(\r\n)+$": the run of CRLFs at the
\* end of the text becomes one CRLF; without such a run nothing matches
RE_replace(str) ==
    IF ends_with(str, CRLF) THEN without_trailing_crlfs(str) \o CRLF ELSE str

\* RE_DOUBLE_SPACE.replace_all(body, " ") with RE_DOUBLE_SPACE = "[\t ]+"
RECURSIVE RE_DOUBLE_SPACE_replace_all(_, _)
RE_DOUBLE_SPACE_replace_all(str, in_run) ==
    IF str = << >> THEN << >>
    ELSE IF Head(str) \in Blanks
         THEN (IF in_run THEN << >> ELSE <<Space>>)
                  \o RE_DOUBLE_SPACE_replace_all(Tail(str), TRUE)
         ELSE <<Head(str)>> \o RE_DOUBLE_SPACE_replace_all(Tail(str), FALSE)

\* RE_SPACE_EOL.replace_all(body, "\r\n") with RE_SPACE_EOL = "[\t ]\r\n"
RECURSIVE RE_SPACE_EOL_replace_all(_)
RE_SPACE_EOL_replace_all(str) ==
    IF str = << >> THEN << >>
    ELSE IF Len(str) >= 3 /\ str[1] \in Blanks /\ SubSeq(str, 2, 3) = CRLF
         THEN CRLF \o RE_SPACE_EOL_replace_all(SubSeq(str, 4, Len(str)))
         ELSE <<Head(str)>> \o RE_SPACE_EOL_replace_all(Tail(str))

\* dkim_canonicalize_body
dkim_canonicalize_body(str, canon) ==
    IF canon = "Simple" THEN RE_replace(str)
    ELSE RE_replace(RE_SPACE_EOL_replace_all(RE_DOUBLE_SPACE_replace_all(str, FALSE)))

\* dkim_canonicalize_body was not called
NoCanon ==
    /\ dkim_body = << >>
    /\ canonicalization = "Simple"
    /\ canon_out = << >>

----------------------------------------------------------------------------
(* DKIM canonicalization of the headers: message/dkim.rs, with the       *)
(* Headers of message/header/mod.rs. A header is its name and its raw    *)
(* value, a sequence of bytes.                                            *)

\* str::to_lowercase and the folding of eq_ignore_ascii_case, on the names
\* the model uses
to_lowercase(name) ==
    CASE name \in {"From", "FROM", "from"} -> "from"
      [] name \in {"To", "TO", "to"} -> "to"
      [] name \in {"Subject", "subject"} -> "subject"
      [] OTHER -> name

eq_ignore_ascii_case(a, b) == to_lowercase(a) = to_lowercase(b)

\* Headers::find_header: iter().find(), the first header whose name equals
\* name whatever the case; 0 for None
find_header(headers, name) ==
    IF \E i \in 1..Len(headers) : eq_ignore_ascii_case(name, headers[i].name)
    THEN CHOOSE i \in 1..Len(headers) :
             /\ eq_ignore_ascii_case(name, headers[i].name)
             /\ \A j \in 1..(i - 1) : ~eq_ignore_ascii_case(name, headers[j].name)
    ELSE 0

\* Headers::append_raw: the header is pushed at the end
append_raw(headers, name, raw_value) ==
    Append(headers, [name |-> name, value |-> raw_value])

\* str::trim_end
RECURSIVE trim_end(_)
trim_end(str) ==
    IF str # << >> /\ str[Len(str)] \in {Space, Tab, CR, LF}
    THEN trim_end(SubSeq(str, 1, Len(str) - 1))
    ELSE str

\* dkim_canonicalize_header_value
dkim_canonicalize_header_value(value, canon) ==
    IF canon = "Simple" THEN value
    ELSE trim_end(RE_DOUBLE_SPACE_replace_all(str_replace(value, CRLF, << >>), FALSE))
             \o CRLF

\* one header of the text returned: Display for Headers writes the name,
\* ": ", the value and CRLF; the relaxed arm writes "{}:{}"
SignedHeader(name, sep, value) == [name |-> name, sep |-> sep, value |-> value]

\* dkim_canonicalize_headers: the headers of the text it returns, for the
\* names headers_list[i..]
RECURSIVE dkim_canonicalize_headers(_, _, _, _)
dkim_canonicalize_headers(list, headers, canon, i) ==
    IF i > Len(list) THEN << >>
    ELSE LET h == IF canon = "Simple" THEN list[i] ELSE to_lowercase(list[i])
             at == find_header(headers, h)
         IN  (IF at = 0 THEN << >>
              ELSE IF canon = "Simple"
                   THEN <<SignedHeader(h, ": ",
                              dkim_canonicalize_header_value(headers[at].value, canon)
                                  \o CRLF)>>
                   ELSE <<SignedHeader(h, ":",
                              dkim_canonicalize_header_value(headers[at].value, canon))>>)
                 \o dkim_canonicalize_headers(list, headers, canon, i + 1)

NoSigned == [called |-> FALSE, text |-> << >>]

\* dkim_canonicalize_headers was not called
NoSigning ==
    /\ headers_list = << >>
    /\ mail_headers = << >>
    /\ header_canon = "Simple"
    /\ signed_out = NoSigned

----------------------------------------------------------------------------
(* DkimConfig and dkim_sign: message/dkim.rs. A private key string is    *)
(* what it holds: "rsa_pem" a PKCS#1 PEM RSA key, "ed25519_b64" a base64 *)
(* Ed25519 key pair, "garbage" neither.                                   *)

KeyStrings == {"rsa_pem", "ed25519_b64", "garbage"}
Algorithms == {"Rsa", "Ed25519"}

\* DkimSigningKey::new: the variant of the key, or "panic" when
\* from_pkcs1_pem, decode or from_bytes fails and is unwrapped
DkimSigningKey_new(private_key, algorithm) ==
    CASE algorithm = "Rsa" /\ private_key = "rsa_pem" -> "Rsa"
      [] algorithm = "Ed25519" /\ private_key = "ed25519_b64" -> "Ed25519"
      [] OTHER -> "panic"

NoConfig ==
    [made |-> FALSE, private_key |-> "none", headers |-> << >>,
     header |-> "Simple", body |-> "Simple", signing_algorithm |-> "Rsa"]

DkimConfig(private_key, headers, canon_h, canon_b, signing_algorithm) ==
    [made |-> TRUE, private_key |-> private_key, headers |-> headers,
     header |-> canon_h, body |-> canon_b, signing_algorithm |-> signing_algorithm]

\* the headers default_config signs
DefaultHeaders == <<"From", "Subject", "To", "Date">>

NoDkimMessage == [headers |-> << >>, body |-> << >>]

\* dkim_sign was not called
NotSigned == [called |-> FALSE, message |-> NoDkimMessage]

\* dkim_header_format: the value of the DKIM-Signature header, tag by tag;
\* a= is config.signing_algorithm, h= the list of names, bh= and b= stand
\* for the hashes, b= with the variant of the key that signed
dkim_header_value(config, signature) ==
    <<"a=", config.signing_algorithm, "c=", config.header, config.body, "h=">>
        \o (IF config.header = "Simple" THEN config.headers
            ELSE [i \in 1..Len(config.headers) |-> to_lowercase(config.headers[i])])
        \o <<"bh=", "b=">> \o signature

\* mutant: the DKIM-Signature header is put before the others
dkim_sign_prepending(msg, config) ==
    [msg EXCEPT !.headers =
        <<[name |-> "DKIM-Signature",
           value |-> dkim_header_value(config, <<config.private_key>>)]>> \o @]

\* dkim_sign: the message with the DKIM-Signature header appended; the
\* signature is made with the key the config holds
dkim_sign(msg, config) ==
    [msg EXCEPT !.headers =
        append_raw(@, "DKIM-Signature",
                   dkim_header_value(config, <<config.private_key>>))]

\* no DkimConfig was made and no message signed
NoDkim ==
    /\ dkim_config = NoConfig
    /\ dkim_panicked = FALSE
    /\ dkim_message = NoDkimMessage
    /\ dkim_unsigned = NotSigned

----------------------------------------------------------------------------
(* The Client of transport/smtp/client/mod.rs and the deadlines of the   *)
(* streams. A duration is 0 for None, else its seconds.                   *)

Durations == {0, 1, 2}

\* a stream as Connector::connect returns it: no deadline set
NewStream == [some |-> TRUE, read_timeout |-> 0, write_timeout |-> 0]

\* Client::new: stream: None
NoStream == [some |-> FALSE, read_timeout |-> 0, write_timeout |-> 0]

\* what a call returned, whether it wrote to the stream, and whether the
\* client held a stream when it was called
Called(name, arg, held, wrote, why) ==
    [op |-> name, arg |-> arg, held |-> held, wrote |-> wrote,
     ok |-> why = "", err |-> why]

NoCall == Called("none", 0, FALSE, FALSE, "")

\* Client::set_timeout on Some(stream): set_read_timeout, and on its
\* success set_read_timeout again
Client_timeouts(str, duration, first_ok, second_ok) ==
    [str EXCEPT !.read_timeout = IF first_ok THEN duration ELSE @]

\* SmtpConnection::set_timeout: set_read_timeout, and on its success
\* set_write_timeout
SmtpConnection_timeouts(str, duration, first_ok, second_ok) ==
    [str EXCEPT !.read_timeout = IF first_ok THEN duration ELSE @,
                !.write_timeout = IF first_ok /\ second_ok THEN duration ELSE @]

\* the replies get_reply makes an error of, and the one it returns Ok for
GetReplyErrors == {"io", "parse", "negative"}
GetReplies == {""} \cup GetReplyErrors

\* no Client is under test
NoClient ==
    /\ client_stream = NoStream
    /\ conn_stream = NewStream
    /\ client_last = NoCall

----------------------------------------------------------------------------
(* Headers: message/header/mod.rs *)

\* HeaderValue::new
HeaderValue(name, raw_value) == [name |-> name, value |-> raw_value]

\* mutant: the header is pushed whether or not the name is present
insert_raw_pushing(headers, hv) == Append(headers, hv)

\* Headers::insert_raw: find_header_mut, then *current_value = value, or
\* push
insert_raw(headers, hv) ==
    IF find_header(headers, hv.name) # 0
    THEN [headers EXCEPT ![find_header(headers, hv.name)] = hv]
    ELSE Append(headers, hv)

\* Vec::remove(i)
vec_remove(headers, i) ==
    SubSeq(headers, 1, i - 1) \o SubSeq(headers, i + 1, Len(headers))

\* Headers::remove_raw: find_header_index, then self.headers.remove(i)
remove_raw(headers, name) ==
    IF find_header(headers, name) = 0 THEN headers
    ELSE vec_remove(headers, find_header(headers, name))

\* what the last call was given, held and returned: at is the index of the
\* header returned in the headers before, 0 for None
HeadersCall(name, hv, before, at) ==
    [op |-> name, given |-> hv, before |-> before, at |-> at]

NoHeadersCalled == HeadersCall("none", HeaderValue("", << >>), << >>, 0)

\* no Headers is under test
NoHeadersCall ==
    /\ the_headers = << >>
    /\ headers_last = NoHeadersCalled

----------------------------------------------------------------------------
(* What the server may send, and what read_response makes of it *)

ReplyCodes == {CodeOf(n) : n \in {235, 250, 334, 354, 451, 550}}

EhloMessages ==
    { << <<"srv">> >>,
      << <<"srv">>, <<"STARTTLS">>, <<"PIPELINING">> >>,
      << <<"srv">>, <<"8BITMIME">>, <<"SMTPUTF8">>, <<"AUTH", "PLAIN", "CRAM-MD5">> >>,
      << <<"srv">>, <<"STARTTLS">>, <<"8BITMIME">>, <<"AUTH", "LOGIN", "PLAIN">> >>,
      << <<"STARTTLS">> >>,
      << <<"srv">>, << >> >>,
      << >> }

Reply(code, message) == [kind |-> "reply", code |-> code, message |-> message]

\* no complete reply: the read fails or times out ("io"), the stream ends
\* ("eof"), or the bytes do not parse as a reply ("malformed")
BadReplies == {[kind |-> k, code |-> NoCode, message |-> << >>] : k \in {"io", "eof", "malformed"}}

Replies == {Reply(c, << >>) : c \in ReplyCodes} \cup BadReplies

EhloReplies ==
    {Reply(c, m) : c \in {x \in ReplyCodes : is_positive(x)}, m \in EhloMessages}
        \cup {Reply(c, << >>) : c \in {x \in ReplyCodes : ~is_positive(x)}}
        \cup BadReplies

\* Result values: Ok(response), of which the code is kept, and Err(error)
Ok(code) == [ok |-> TRUE, kind |-> "ok", code |-> code, why |-> ""]

Err(kind, code, why) == [ok |-> FALSE, kind |-> kind, code |-> code, why |-> why]

NoResult == [ok |-> TRUE, kind |-> "none", code |-> NoCode, why |-> ""]

\* SmtpConnection::read_response: Ok for a complete positive reply, the code
\* error for a complete negative one, a response error for bytes that do not
\* parse or a stream that ends early, a network error for a failed read
read_response(reply) ==
    CASE reply.kind = "reply" ->
            IF is_positive(reply.code) THEN Ok(reply.code)
            ELSE Err("code", reply.code, "")
      [] reply.kind = "malformed" -> Err("response", NoCode, "parse")
      [] reply.kind = "eof" -> Err("response", NoCode, "incomplete response")
      [] OTHER -> Err("network", NoCode, "read")

\* whether read_response consumed a complete reply
reply_read(reply) == IF reply.kind = "reply" THEN "no" ELSE "failed"

\* SmtpConnection::write: write_all and flush succeed, or fail with a network
\* error; on a stream that was shut down they fail
WriteOutcomes == IF shut THEN {FALSE} ELSE {TRUE, FALSE}

----------------------------------------------------------------------------
(* Envelopes: lib.rs.  An address is its local part and whether all its    *)
(* bytes are ASCII.                                                        *)

Ann == [name |-> "ann", ascii |-> TRUE]
Bob == [name |-> "bob", ascii |-> TRUE]
Zoe == [name |-> "zoe", ascii |-> FALSE]

NoAddress == [name |-> "", ascii |-> TRUE]

\* mutant: the envelope whatever `to` holds
Envelope_new_unchecked(from, to) ==
    [ok |-> TRUE, forward_path |-> to, reverse_path |-> from]

\* Envelope::new: MissingTo for an empty `to`, else the envelope
Envelope_new(from, to) ==
    IF to = << >> THEN [ok |-> FALSE, forward_path |-> << >>, reverse_path |-> NoAddress]
    ELSE [ok |-> TRUE, forward_path |-> to, reverse_path |-> from]

RecipientLists == UNION {[1..n -> {Bob, Zoe}] : n \in 0..MaxRcpt}

\* the envelopes a caller can hold: those Envelope::new returned
Envelopes ==
    {e \in {Envelope_new(f, t) : f \in {NoAddress, Ann}, t \in RecipientLists} : e.ok}

\* Envelope::has_non_ascii_addresses
has_non_ascii_addresses(env) ==
    \/ ~env.reverse_path.ascii
    \/ \E i \in 1..Len(env.forward_path) : ~env.forward_path[i].ascii

\* Envelope::to and Envelope::from
Envelope_to(env) == env.forward_path
Envelope_from(env) == env.reverse_path

\* a header of mailboxes that the Headers may hold: Option<&Mailboxes>
NoHeader == [present |-> FALSE, boxes |-> << >>]
Header(boxes) == [present |-> TRUE, boxes |-> boxes]

NoHeaders == [sender |-> NoHeader, from |-> NoHeader, to |-> NoHeader,
              cc |-> NoHeader, bcc |-> NoHeader]

\* add_addresses_from_mailboxes
add_addresses_from_mailboxes(addresses, mailboxes) ==
    IF mailboxes.present THEN addresses \o mailboxes.boxes ELSE addresses

\* what a call returned: outcome is "none", "ok", "err" or "panic"
Returned(made) ==
    [outcome |-> IF made.ok THEN "ok" ELSE "err",
     err |-> IF made.ok THEN "" ELSE "MissingTo",
     envelope |-> made]

NoEnvelope ==
    [outcome |-> "none", err |-> "", envelope |-> Envelope_new(NoAddress, << >>)]

\* Envelope::try_from(&Headers): the Sender, else the first From address,
\* whose unwrap() panics when From holds no mailbox; To, Cc and Bcc in turn
try_from(headers) ==
    IF ~headers.sender.present /\ headers.from.present /\ headers.from.boxes = << >>
    THEN [NoEnvelope EXCEPT !.outcome = "panic"]
    ELSE Returned(Envelope_new(
             IF headers.sender.present THEN headers.sender.boxes[1]
             ELSE IF headers.from.present THEN headers.from.boxes[1]
             ELSE NoAddress,
             add_addresses_from_mailboxes(
                 add_addresses_from_mailboxes(
                     add_addresses_from_mailboxes(<< >>, headers.to),
                     headers.cc),
                 headers.bcc)))

\* no call of Envelope::new or Envelope::try_from is under test
NoEnvelopeCall ==
    /\ env_call = [fn |-> "none", from |-> NoAddress, to |-> << >>, headers |-> NoHeaders]
    /\ env_out = NoEnvelope

----------------------------------------------------------------------------
(* The engine: transport/smtp/client/connection.rs *)

\* the challenges the auth loop answers (let mut challenges = 10)
MaxChallenges == 10

Item(verb, arg) == [verb |-> verb, arg |-> arg]

\* what the step at pc writes to the stream
WireItem ==
    CASE pc = "ehlo_w" -> Item("EHLO", "")
      [] pc = "mail_w" -> Item("MAIL", envelope.reverse_path.name)
      [] pc = "rcpt_w" -> Item("RCPT", envelope.forward_path[idx + 1].name)
      [] pc = "data_w" -> Item("DATA", "")
      [] pc = "body_w" -> Item("BODY", "")
      [] pc = "term_w" -> Item("END", "")
      [] pc = "starttls_w" -> Item("STARTTLS", "")
      [] pc = "noop_w" -> Item("NOOP", "")
      [] pc = "auth_w" -> Item("AUTH", "")
      [] pc = "authresp_w" -> Item("AUTHRESP", "")
      [] OTHER -> Item("QUIT", "")

WriteLabels ==
    {"ehlo_w", "mail_w", "rcpt_w", "data_w", "body_w", "term_w", "starttls_w",
     "quit_w", "noop_w", "auth_w", "authresp_w", "abort_quit_w"}

\* the step that follows the write at `at`
after_write(at) ==
    CASE at = "ehlo_w" -> "ehlo_r"
      [] at = "mail_w" -> "mail_r"
      [] at = "rcpt_w" -> "rcpt_r"
      [] at = "data_w" -> "data_r"
      [] at = "body_w" -> "term_w"
      [] at = "term_w" -> "msg_r"
      [] at = "starttls_w" -> "starttls_r"
      [] at = "quit_w" -> "quit_r"
      [] at = "noop_w" -> "noop_r"
      [] at = "auth_w" -> "auth_r"
      [] at = "authresp_w" -> "authresp_r"
      [] OTHER -> "abort_quit_r"

\* mutant: the RCPT follows the MAIL without its reply being read
command_pipelined(at) == IF at = "mail_w" THEN "rcpt_w" ELSE after_write(at)

\* command(): after the write comes read_response; message(): after the body
\* comes the terminator, then read_response
command(at) == after_write(at)

\* mutant: abort() never writes QUIT
abort_entry_never_quit(broken) == "abort_shutdown"

\* mutant: abort() writes QUIT whatever the state
abort_entry_always_quit(broken) == "abort_quit_w"

\* abort(): QUIT only if the session is not already broken
abort_entry(broken) == IF ~broken THEN "abort_quit_w" ELSE "abort_shutdown"

\* mutant: connect returns the SmtpConnection whatever happened
Done_with_session(res) ==
    /\ result' = res
    /\ pc' = "idle"

\* a public method returns res; a failed connect leaves no SmtpConnection
Done(res) ==
    /\ result' = res
    /\ pc' = IF op = "connect" /\ ~res.ok THEN "dead" ELSE "idle"

\* the error is returned as it is (the ? operator, or is_ok())
question_mark(res) ==
    /\ Done(res)
    /\ failed_at' = pc
    /\ UNCHANGED <<panic, err, aborts>>

\* mutant: try_smtp! returns the error without abort()
try_smtp_without_abort(res) == question_mark(res)

\* the error branch of try_smtp!: abort(), then return the error.  An error
\* inside the ehlo() of starttls is caught by the try_smtp! of ehlo and again
\* by the one of starttls.
try_smtp(res) ==
    /\ err' = res
    /\ failed_at' = pc
    /\ aborts' = IF op = "starttls" /\ pc \in {"ehlo_w", "ehlo_r"} THEN 2 ELSE 1
    /\ panic' = TRUE
    /\ pc' = abort_entry(panic)
    /\ UNCHANGED result

\* mutant: the AUTH command is wrapped in try_smtp! as the challenge responses are
Unguarded_but_auth == {"greeting", "noop_w", "noop_r", "upgrade_tls"}

\* the steps whose error is returned without try_smtp!
Unguarded == {"greeting", "noop_w", "noop_r", "auth_w", "auth_r", "upgrade_tls"}

\* what the step at pc does with the error res
Fails(res) ==
    IF pc \in {"abort_quit_w", "abort_quit_r"}
    THEN pc' = "abort_shutdown" /\ UNCHANGED <<panic, err, failed_at, aborts, result>>
    ELSE IF pc \in Unguarded THEN question_mark(res) ELSE try_smtp(res)

\* the step at pc went well and the operation goes on at `next`
Goes(next) == pc' = next /\ UNCHANGED <<panic, err, failed_at, aborts, result>>

DefaultEnvelope == Envelope_new(NoAddress, <<Bob>>)

\* the operation called has no envelope, message or recipient loop
NoSend ==
    envelope' = DefaultEnvelope /\ email_ascii' = TRUE /\ idx' = 0 /\ data_reply' = NoCode

\* the operation called has no SASL exchange
NoAuth == challenges' = 0 /\ state' = "running" /\ response' = NoCode

\* a public method is called on the idle session; the locals and the result
\* of the call before are gone
Begin(o) ==
    /\ pc = "idle"
    /\ op' = o
    /\ wire' = << >>
    /\ abort_quit' = "none"
    /\ shutdowns' = 0
    /\ pre_panic' = panic
    /\ accepted' = 0
    /\ failed_at' = "none"
    /\ err' = NoResult
    /\ UNCHANGED awaiting

\* no call of has_code is under test
NoCodeCall == resp_code = NoCode /\ asked = 0 /\ answer = "none"

\* the session connect has just opened
SessionInit ==
    /\ pc = "greeting"
    /\ op = "connect"
    /\ panic = FALSE
    /\ server_info = default_server_info
    /\ ehlo_reply = NoEhlo
    /\ encrypted \in BOOLEAN
    /\ shut = FALSE
    /\ wire = << >>
    /\ awaiting = "no"
    /\ abort_quit = "none"
    /\ shutdowns = 0
    /\ pre_panic = FALSE
    /\ accepted = 0
    /\ result = NoResult
    /\ err = NoResult
    /\ failed_at = "none"
    /\ aborts = 0
    /\ envelope = DefaultEnvelope
    /\ email_ascii = TRUE
    /\ idx = 0
    /\ data_reply = NoCode
    /\ challenges = 0
    /\ state = "running"
    /\ response = NoCode

Init == SessionInit /\ NoCodeCall /\ NoParse /\ NoInfoCall /\ NoMessage /\ NoEnvelopeCall /\ NoCanon /\ NoSigning /\ NoDkim /\ NoClient /\ NoHeadersCall

\* SmtpConnection::write for the command or the data of the step at pc
write ==
    /\ pc \in WriteLabels
    /\ \E done \in WriteOutcomes :
         IF done
         THEN /\ wire' = Append(wire, WireItem)
              /\ awaiting' = IF pc = "body_w" THEN awaiting ELSE "pending"
              /\ abort_quit' = IF pc = "abort_quit_w" THEN "written" ELSE abort_quit
              /\ Goes(command(pc))
         ELSE /\ abort_quit' = IF pc = "abort_quit_w" THEN "failed" ELSE abort_quit
              /\ Fails(Err("network", NoCode, "write"))
              /\ UNCHANGED <<wire, awaiting>>
    /\ UNCHANGED <<op, connVars, shutdowns, pre_panic, accepted, sendVars, authVars>>
    /\ UNCHANGED benchVars

\* read_response at a step that only needs a positive reply to go on
ReadThen(at, next) ==
    /\ pc = at
    /\ \E reply \in Replies :
         LET res == read_response(reply) IN
         /\ awaiting' = reply_read(reply)
         /\ IF res.ok
            THEN accepted' = accepted + 1 /\ (IF next = "return" THEN
                      Done(res) /\ UNCHANGED <<panic, err, failed_at, aborts>>
                 ELSE Goes(next))
            ELSE Fails(res) /\ UNCHANGED accepted
    /\ UNCHANGED <<op, connVars, wire, abort_quit, shutdowns, pre_panic, authVars>>

(* connect *)

\* connect: the greeting is read; its error is returned by ?
connect ==
    /\ ReadThen("greeting", "ehlo_w")
    /\ UNCHANGED sendVars
    /\ UNCHANGED benchVars

\* ehlo(): the reply is read and server_info replaced by what it advertises
ehlo ==
    /\ pc = "ehlo_r"
    /\ \E reply \in EhloReplies :
         LET res == read_response(reply)
             info == from_response(reply.message) IN
         /\ awaiting' = reply_read(reply)
         /\ IF ~res.ok
            THEN Fails(res) /\ UNCHANGED <<accepted, server_info, ehlo_reply>>
            ELSE /\ accepted' = accepted + 1
                 /\ CASE info.outcome = "ok" ->
                            /\ server_info' = replace_server_info(server_info, info.info)
                            /\ ehlo_reply' = [seen |-> TRUE, message |-> reply.message]
                            /\ Done(Ok(res.code))
                            /\ UNCHANGED <<panic, err, failed_at, aborts>>
                      [] info.outcome = "err" ->
                            /\ try_smtp(Err("response", NoCode, "Could not read server name"))
                            /\ UNCHANGED <<server_info, ehlo_reply>>
                      [] OTHER ->
                            /\ pc' = "crashed"
                            /\ UNCHANGED <<panic, err, failed_at, aborts, result, server_info,
                                           ehlo_reply>>
    /\ UNCHANGED <<op, encrypted, shut, wire, abort_quit, shutdowns, pre_panic,
                   sendVars, authVars>>
    /\ UNCHANGED benchVars

(* send *)

\* mutant: the message bytes are not checked
send_check_addresses_only(info, env, ascii) ==
    IF has_non_ascii_addresses(env) /\ ~supports_feature(info, "SmtpUtfEight")
    THEN "SMTPUTF8" ELSE "ok"

\* the two checks send makes before MAIL: "ok", or the extension that lacks
send_check(info, env, ascii) ==
    IF has_non_ascii_addresses(env) /\ ~supports_feature(info, "SmtpUtfEight")
    THEN "SMTPUTF8"
    ELSE IF ~ascii /\ ~supports_feature(info, "EightBitMime") THEN "8BITMIME" ELSE "ok"

send ==
    /\ Begin("send")
    /\ \E env \in Envelopes, ascii \in BOOLEAN :
         /\ envelope' = env
         /\ email_ascii' = ascii
         /\ idx' = 0
         /\ data_reply' = NoCode
         /\ IF send_check(server_info, env, ascii) = "ok"
            THEN pc' = "mail_w" /\ result' = NoResult
            ELSE pc' = "idle"
                 /\ result' = Err("client", NoCode, send_check(server_info, env, ascii))
    /\ NoAuth
    /\ UNCHANGED <<panic, aborts, connVars>>
    /\ UNCHANGED benchVars

\* mutant: DATA follows the first accepted recipient
next_rcpt_first_only(i, env) == IF i < 1 THEN "rcpt_w" ELSE "data_w"

\* the loop over envelope.to(): the next recipient, or DATA after the last
next_rcpt(i, env) == IF i < Len(env.forward_path) THEN "rcpt_w" ELSE "data_w"

send_mail ==
    /\ ReadThen("mail_r", next_rcpt(0, envelope))
    /\ UNCHANGED sendVars
    /\ UNCHANGED benchVars

send_rcpt ==
    /\ ReadThen("rcpt_r", next_rcpt(idx + 1, envelope))
    /\ idx' = IF pc' \in {"rcpt_w", "data_w"} THEN idx + 1 ELSE idx
    /\ UNCHANGED <<envelope, email_ascii, data_reply>>
    /\ UNCHANGED benchVars

\* try_smtp!(self.command(Data), self): any reply read_response returns Ok
\* for lets send go on to message()
send_data ==
    /\ pc = "data_r"
    /\ \E reply \in Replies :
         LET res == read_response(reply) IN
         /\ awaiting' = reply_read(reply)
         /\ data_reply' = reply.code
         /\ IF res.ok
            THEN accepted' = accepted + 1 /\ Goes("body_w")
            ELSE Fails(res) /\ UNCHANGED accepted
    /\ UNCHANGED <<op, connVars, wire, abort_quit, shutdowns, pre_panic, authVars,
                   envelope, email_ascii, idx>>
    /\ UNCHANGED benchVars

\* message(): the reply to the body is the result of send
message ==
    /\ ReadThen("msg_r", "return")
    /\ UNCHANGED sendVars
    /\ UNCHANGED benchVars

(* starttls *)

starttls ==
    /\ Begin("starttls")
    /\ IF supports_feature(server_info, "StartTls")
       THEN pc' = "starttls_w" /\ result' = NoResult
       ELSE pc' = "idle"
            /\ result' = Err("client", NoCode, "STARTTLS is not supported on this server")
    /\ NoSend /\ NoAuth
    /\ UNCHANGED <<panic, aborts, connVars>>
    /\ UNCHANGED benchVars

starttls_reply ==
    /\ ReadThen("starttls_r", "upgrade_tls")
    /\ UNCHANGED sendVars
    /\ UNCHANGED benchVars

\* mutant: a failed handshake leaves a plain stream
upgrade_tls_plain_on_failure ==
    /\ pc = "upgrade_tls"
    /\ \E done \in BOOLEAN :
         IF done
         THEN encrypted' = TRUE /\ Goes("ehlo_w")
         ELSE Fails(Err("tls", NoCode, "handshake")) /\ encrypted' = FALSE
    /\ UNCHANGED <<op, server_info, ehlo_reply, shut, histVars, sendVars, authVars>>
    /\ UNCHANGED benchVars

\* upgrade_tls: the handshake succeeds, or its error is returned by ?
upgrade_tls ==
    /\ pc = "upgrade_tls"
    /\ \E done \in BOOLEAN :
         IF done
         THEN encrypted' = TRUE /\ Goes("ehlo_w")
         ELSE Fails(Err("tls", NoCode, "handshake")) /\ UNCHANGED encrypted
    /\ UNCHANGED <<op, server_info, ehlo_reply, shut, histVars, sendVars, authVars>>
    /\ UNCHANGED benchVars

(* quit, test_connected *)

quit ==
    /\ Begin("quit")
    /\ pc' = "quit_w"
    /\ result' = NoResult
    /\ NoSend /\ NoAuth
    /\ UNCHANGED <<panic, aborts, connVars>>
    /\ UNCHANGED benchVars

quit_reply ==
    /\ ReadThen("quit_r", "return")
    /\ UNCHANGED sendVars
    /\ UNCHANGED benchVars

test_connected ==
    /\ Begin("test_connected")
    /\ pc' = "noop_w"
    /\ result' = NoResult
    /\ NoSend /\ NoAuth
    /\ UNCHANGED <<panic, aborts, connVars>>
    /\ UNCHANGED benchVars

test_connected_reply ==
    /\ ReadThen("noop_r", "return")
    /\ UNCHANGED sendVars
    /\ UNCHANGED benchVars

(* abort *)

\* abort() called by the owner of the session
abort ==
    /\ Begin("abort")
    /\ panic' = TRUE
    /\ pc' = abort_entry(panic)
    /\ aborts' = 1
    /\ result' = NoResult
    /\ NoSend /\ NoAuth
    /\ UNCHANGED connVars
    /\ UNCHANGED benchVars

\* let _ = self.command(Quit): whatever the server answers is dropped
abort_quit_reply ==
    /\ pc = "abort_quit_r"
    /\ \E reply \in Replies : awaiting' = reply_read(reply)
    /\ pc' = "abort_shutdown"
    /\ UNCHANGED <<op, panic, err, failed_at, aborts, result, connVars, wire,
                   abort_quit, shutdowns, pre_panic, accepted, sendVars, authVars>>
    /\ UNCHANGED benchVars

\* the shutdown that ends abort(); then try_smtp! returns the error, or the
\* enclosing try_smtp! calls abort() once more
abort_shutdown ==
    /\ pc = "abort_shutdown"
    /\ shut' = TRUE
    /\ shutdowns' = shutdowns + 1
    /\ IF aborts > 1
       THEN /\ aborts' = aborts - 1
            /\ panic' = TRUE
            /\ pc' = abort_entry(panic)
            /\ UNCHANGED result
       ELSE /\ aborts' = 0
            /\ Done(IF op = "abort" THEN Ok(NoCode) ELSE err)
            /\ UNCHANGED panic
    /\ UNCHANGED <<op, err, failed_at, server_info, ehlo_reply, encrypted, wire, awaiting,
                   abort_quit, pre_panic, accepted, sendVars, authVars>>
    /\ UNCHANGED benchVars

(* set_stream *)

\* set_stream: the stream is replaced by the NetworkStream given, plain or
\* encrypted, not shut down, with nothing written or buffered
set_stream ==
    /\ pc = "idle"
    /\ op' = "set_stream"
    /\ \E tls \in BOOLEAN : encrypted' = tls
    /\ shut' = FALSE
    /\ awaiting' = "no"
    /\ wire' = << >>
    /\ abort_quit' = "none"
    /\ shutdowns' = 0
    /\ pre_panic' = panic
    /\ accepted' = 0
    /\ failed_at' = "none"
    /\ err' = NoResult
    /\ result' = NoResult
    /\ pc' = "idle"
    /\ NoSend /\ NoAuth
    /\ UNCHANGED <<panic, aborts, server_info, ehlo_reply>>
    /\ UNCHANGED benchVars

(* auth *)

\* what a step of the SASL session yields: the new state, or an error
SaslSteps == {"running", "finished", "error"}

\* the mechanisms a caller's SASLConfig may offer
SaslConfigs == {{"Authentication(Plain)"}, {"Authentication(CramMd5)"}}

\* mutant: the counter is not looked at
challenge_limit_finished_only(left, st) == st = "finished"

\* the loop gives up: no challenge left, or the mechanism is finished
challenge_limit(left, st) == left = 0 \/ st = "finished"

\* auth up to the AUTH command: a mechanism both sides know, then Auth::initial
auth ==
    /\ Begin("auth")
    /\ response' = NoCode
    /\ \E config \in SaslConfigs, step \in SaslSteps :
         IF config \cap server_info.features = {}
         THEN /\ pc' = "idle"
              /\ result' = Err("client", NoCode,
                               "No compatible authentication mechanism was found")
              /\ challenges' = 0 /\ state' = "running"
         ELSE /\ challenges' = MaxChallenges
              /\ IF step = "error"
                 THEN /\ pc' = "idle"
                      /\ result' = Err("client", NoCode, "sasl")
                      /\ state' = "running"
                 ELSE /\ pc' = "auth_w"
                      /\ state' = step
                      /\ result' = NoResult
    /\ NoSend
    /\ UNCHANGED <<panic, aborts, connVars>>
    /\ UNCHANGED benchVars

\* the rest of auth once a positive reply is in `response`: the while loop
\* up to the next command, or the end of auth
auth_loop(code) ==
    /\ response' = code
    /\ IF has_code(code, 334)
       THEN IF challenge_limit(challenges, state)
            THEN /\ question_mark(Err("response", NoCode, "Unexpected number of challenges"))
                 /\ UNCHANGED <<challenges, state>>
            ELSE /\ challenges' = challenges - 1
                 /\ \E step \in SaslSteps :
                      IF step = "error"
                      THEN question_mark(Err("client", NoCode, "sasl")) /\ UNCHANGED state
                      ELSE state' = step /\ Goes("authresp_w")
       ELSE /\ UNCHANGED <<challenges, state>>
            /\ IF state = "running"
               THEN \E done \in BOOLEAN :
                      IF done
                      THEN Done(Ok(code)) /\ UNCHANGED <<panic, err, failed_at, aborts>>
                      ELSE question_mark(Err("client", NoCode, "sasl"))
               ELSE Done(Ok(code)) /\ UNCHANGED <<panic, err, failed_at, aborts>>

\* the reply to AUTH (its error returned by ?) or to a challenge response
\* (its error caught by try_smtp!)
auth_reply ==
    /\ pc \in {"auth_r", "authresp_r"}
    /\ \E reply \in Replies :
         LET res == read_response(reply) IN
         /\ awaiting' = reply_read(reply)
         /\ IF res.ok
            THEN accepted' = accepted + 1 /\ auth_loop(res.code)
            ELSE Fails(res) /\ UNCHANGED <<accepted, authVars>>
    /\ UNCHANGED <<op, connVars, wire, abort_quit, shutdowns, pre_panic, sendVars>>
    /\ UNCHANGED benchVars

----------------------------------------------------------------------------

Next ==
    \/ write
    \/ connect
    \/ ehlo
    \/ send
    \/ send_mail
    \/ send_rcpt
    \/ send_data
    \/ message
    \/ starttls
    \/ starttls_reply
    \/ upgrade_tls
    \/ quit
    \/ quit_reply
    \/ test_connected
    \/ test_connected_reply
    \/ auth
    \/ auth_reply
    \/ abort
    \/ abort_quit_reply
    \/ abort_shutdown
    \/ set_stream

Spec == Init /\ [][Next]_vars

----------------------------------------------------------------------------
(* Properties of send and abort *)

HasVerb(w, verb) == \E i \in 1..Len(w) : w[i].verb = verb

IsPrefix(a, b) == Len(a) <= Len(b) /\ a = SubSeq(b, 1, Len(a))

\* send was answered 4yz or 5yz at MAIL, RCPT or DATA and has returned that error
NegativeReply ==
    /\ op = "send"
    /\ pc = "idle"
    /\ failed_at \in {"mail_r", "rcpt_r", "data_r"}
    /\ result.kind = "code"
    /\ result.code.severity \in {4, 5}

Transaction(env) ==
    <<Item("MAIL", env.reverse_path.name)>>
        \o [i \in 1..Len(env.forward_path) |-> Item("RCPT", env.forward_path[i].name)]
        \o <<Item("DATA", ""), Item("BODY", ""), Item("END", "")>>

\* the steps a written prefix of a transaction needed: the body and its
\* terminator are one step
Steps(w) == Len(w) - (IF HasVerb(w, "END") THEN 1 ELSE 0)

\* each step after a positive reply to the one before; DATA after MAIL and
\* every RCPT were accepted
Stepwise(w) ==
    /\ Steps(w) <= accepted + 1
    /\ HasVerb(w, "DATA") => accepted >= 1 + Len(envelope.forward_path)

\* C2, as claimed: what send has written is a prefix of MAIL, RCPT(r1), ...,
\* RCPT(rn), DATA, body, each step written after a positive reply to the one
\* before.
C2_TransactionPrefix ==
    op = "send" => IsPrefix(wire, Transaction(envelope)) /\ Stepwise(wire)

\* C2, amended: what send has written is a prefix of MAIL, RCPT(r1), ...,
\* RCPT(rn), DATA, body, each step written after a positive reply to the one
\* before, followed, once a step has failed, by at most the one QUIT of
\* abort().
C2_TransactionThenQuit ==
    op = "send" =>
        LET txn == IF abort_quit = "written" THEN SubSeq(wire, 1, Len(wire) - 1) ELSE wire IN
        /\ abort_quit = "written" => wire # << >> /\ wire[Len(wire)].verb = "QUIT"
        /\ abort_quit # "none" => failed_at # "none"
        /\ IsPrefix(txn, Transaction(envelope))
        /\ Stepwise(txn)

C2_Witness ==
    /\ op = "send"
    /\ pc = "idle"
    /\ result.kind = "ok"
    /\ Len(envelope.forward_path) >= 2
    /\ wire = Transaction(envelope)

\* C3, as claimed: nothing is written while the reply to the command written
\* before has not been read completely.
C3_Serialized == [][Len(wire') = Len(wire) + 1 => awaiting = "no"]_vars

\* C3, amended: nothing is written while read_response has not returned for
\* the command written before; it is written with that reply unread only
\* after read_response failed (I/O error, timeout, end of stream, malformed
\* reply).
C3_SerializedUnlessReadFailed ==
    [][Len(wire') = Len(wire) + 1 => awaiting # "pending"]_vars

C3_Witness ==
    /\ abort_quit = "written"
    /\ failed_at = "mail_r"
    /\ err.kind = "network"
    /\ awaiting = "pending"

\* the envelope or the message needs an extension the server did not advertise
Refused(info, env, ascii) ==
    \/ has_non_ascii_addresses(env) /\ "SmtpUtfEight" \notin info.features
    \/ ~ascii /\ "EightBitMime" \notin info.features

\* C4: a send whose envelope has a non-ASCII address without SMTPUTF8 in
\* server_info, or whose message is not ASCII without 8BITMIME, returns a
\* client error at once: nothing is written, has_broken() and server_info are
\* as before.
C4_RefusedBeforeMail ==
    [][(pc = "idle" /\ op' = "send" /\ Refused(server_info, envelope', email_ascii')) =>
        /\ pc' = "idle"
        /\ result'.kind = "client"
        /\ wire' = << >>
        /\ panic' = panic
        /\ shut' = shut
        /\ server_info' = server_info]_vars

C4_Witness ==
    /\ op = "send"
    /\ pc = "idle"
    /\ result = Err("client", NoCode, "8BITMIME")
    /\ wire = << >>
    /\ ~panic

\* the error of a failed read or write, of a failed handshake or of a reply
\* that does not parse
IoOrMalformed(e) ==
    /\ e.kind \in {"network", "tls", "response"}
    /\ e.why \in {"read", "write", "handshake", "parse", "incomplete response"}

\* C5: an operation on the established session that fails with a network
\* error, a timeout, a failed TLS handshake or a malformed reply leaves
\* has_broken() true.
C5_BrokenAfterIoError ==
    (/\ pc = "idle"
     /\ op \in {"starttls", "auth", "send", "quit", "test_connected"}
     /\ IoOrMalformed(result)) => panic

\* the running operation made the session Broken for such an error
BecameBroken == panic /\ ~pre_panic /\ IoOrMalformed(err)

\* C6, as claimed: when a network error, a TLS failure or a malformed reply
\* makes the session Broken, no QUIT is written at or after the failing step.
C6_BrokenWithoutQuit == BecameBroken => abort_quit # "written"

\* C6, amended: when a network error or a malformed reply makes the session
\* Broken, abort() first tries to write one QUIT (the write may fail, the
\* reply is dropped) and only then shuts the socket down.
C6_QuitThenShutdown ==
    BecameBroken =>
        /\ pc \in {"abort_quit_w", "abort_quit_r"} => shutdowns = 0 /\ ~shut
        /\ pc = "abort_shutdown" /\ shutdowns = 0 => abort_quit \in {"written", "failed"}
        /\ pc = "idle" => abort_quit \in {"written", "failed"} /\ shutdowns >= 1 /\ shut
        /\ abort_quit = "written" => wire[Len(wire)].verb = "QUIT"

C6_Witness ==
    /\ BecameBroken
    /\ pc = "idle"
    /\ err.why = "parse"
    /\ abort_quit = "written"
    /\ shutdowns = 1

AbortLabels == {"abort_quit_w", "abort_quit_r", "abort_shutdown"}

\* C7: once has_broken() is true it stays true, and every call of abort()
\* made then goes straight to the shutdown, which writes nothing.
C7_AbortWhenBroken ==
    [][/\ panic => panic'
       /\ (/\ panic
           /\ pc' \in AbortLabels
           /\ pc \notin AbortLabels \/ pc = "abort_shutdown") => pc' = "abort_shutdown"
       /\ pc = "abort_shutdown" => wire' = wire /\ shut' /\ shutdowns' = shutdowns + 1]_vars

C7_Witness ==
    /\ op = "abort"
    /\ pre_panic
    /\ pc = "idle"
    /\ wire = << >>
    /\ abort_quit = "none"
    /\ shutdowns = 1
    /\ panic

----------------------------------------------------------------------------
(* Properties of auth *)

\* the challenge responses auth has written
Responses(w) == Cardinality({i \in 1..Len(w) : w[i].verb = "AUTHRESP"})

\* C8: auth writes at most 10 challenge responses after the AUTH command;
\* the counter never goes below 0; a 334 reply that finds the counter at 0
\* ends auth with an error.
C8_ChallengeCap ==
    op = "auth" =>
        /\ Responses(wire) <= 10
        /\ challenges \in 0..10
        /\ pc = "authresp_w" => challenges + Responses(wire) = 9
        /\ pc = "authresp_r" => challenges + Responses(wire) = 10
        /\ (pc = "idle" /\ has_code(response, 334)) => ~result.ok

C8_Witness ==
    /\ op = "auth"
    /\ pc = "idle"
    /\ Responses(wire) = 10
    /\ has_code(response, 334)
    /\ result = Err("response", NoCode, "Unexpected number of challenges")

\* C9: when auth stops because the server sent more challenges than the cap
\* allows, has_broken() is true afterwards.
C9_BrokenAfterCap ==
    (/\ op = "auth"
     /\ pc = "idle"
     /\ challenges = 0
     /\ result.why = "Unexpected number of challenges") => panic

\* C10: auth returns Ok only for a final reply of code 235.
C10_SuccessOnly235 ==
    (op = "auth" /\ pc = "idle" /\ result.kind = "ok") => has_code(result.code, 235)

\* auth was answered 4yz or 5yz and has returned that error
AuthRejected ==
    /\ op = "auth"
    /\ pc = "idle"
    /\ result.kind = "code"
    /\ result.code.severity \in {4, 5}

----------------------------------------------------------------------------
(* Properties of starttls, ehlo and the stream *)

\* an EHLO reply advertises a keyword on a line after the first, which holds
\* the domain and the greeting
Advertises(lines, keyword) ==
    \E i \in 2..Len(lines) : lines[i] # << >> /\ lines[i][1] = keyword

\* C12: when the latest EHLO reply does not advertise STARTTLS, starttls
\* returns an error at once: nothing is written, has_broken(), is_encrypted()
\* and server_info are as before.
C12_UnadvertisedStarttlsRefused ==
    [][(/\ pc = "idle"
        /\ op' = "starttls"
        /\ ehlo_reply.seen
        /\ ~Advertises(ehlo_reply.message, "STARTTLS")) =>
        /\ pc' = "idle"
        /\ ~result'.ok
        /\ wire' = << >>
        /\ panic' = panic
        /\ encrypted' = encrypted
        /\ server_info' = server_info]_vars

\* C13: whenever ehlo() has succeeded, server_info is what from_response
\* yields for the reply of the latest ehlo() that succeeded, and nothing
\* else; before the first it is the default.
C13_ServerInfoOfLatestEhlo ==
    IF ehlo_reply.seen
    THEN /\ from_response(ehlo_reply.message).outcome = "ok"
         /\ server_info = from_response(ehlo_reply.message).info
    ELSE server_info = default_server_info

C13_Witness ==
    /\ op = "starttls"
    /\ pc = "idle"
    /\ result.kind = "ok"
    /\ encrypted
    /\ ehlo_reply.seen
    /\ ~supports_feature(server_info, "StartTls")
    /\ supports_feature(server_info, "EightBitMime")

\* C14, as claimed: once is_encrypted() is true it is true after every later
\* operation of the session, set_stream included.
C14_EncryptedForGood == [][encrypted => encrypted']_vars

\* C14, amended: once is_encrypted() is true it stays true through every
\* step of starttls, send, auth, quit, test_connected and abort; only
\* set_stream, which installs the stream it is given, can make it false.
C14_EncryptedUnlessSetStream ==
    [][(encrypted /\ ~encrypted') => (pc = "idle" /\ op' = "set_stream")]_vars

C14_Witness ==
    /\ encrypted
    /\ op = "starttls"
    /\ failed_at = "upgrade_tls"
    /\ pc = "idle"
    /\ result.kind = "tls"

----------------------------------------------------------------------------
(* Properties of send: the DATA phase *)

\* C15: send writes the message body and its terminator only after a reply
\* of code 354 to DATA.
C15_BodyOnlyAfter354 ==
    (op = "send" /\ (HasVerb(wire, "BODY") \/ HasVerb(wire, "END"))) =>
        has_code(data_reply, 354)

----------------------------------------------------------------------------
(* Response::has_code on its own: any Code that Code::new builds, any       *)
(* argument                                                                *)

\* the values of Severity and of Category, as the digits they are written as
Severities == 2..5

Categories == 0..5

\* Code::new: no check of the detail
Codes == {Code(s, c, d) : s \in Severities, c \in Categories, d \in 0..MaxDetail}

CodeInit ==
    /\ SessionInit
    /\ encrypted = FALSE
    /\ NoHeadersCall
    /\ NoClient
    /\ NoDkim
    /\ NoSigning
    /\ NoCanon
    /\ NoEnvelopeCall
    /\ NoMessage
    /\ NoInfoCall
    /\ NoParse
    /\ resp_code \in Codes
    /\ asked \in 0..MaxAsked
    /\ answer = "none"

\* response.has_code(asked)
has_code_call ==
    /\ answer = "none"
    /\ answer' = IF has_code(resp_code, asked) THEN "true" ELSE "false"
    /\ UNCHANGED <<resp_code, asked, exceptCodeVars>>

CodeNext == has_code_call

SpecCode == CodeInit /\ [][CodeNext]_vars

\* C20: has_code(n) is true exactly when n = 100*severity + 10*category +
\* detail of the code of the Response.
C20_HasCodeIsIntegerEquality ==
    answer # "none" =>
        ((answer = "true") <=>
            (asked = 100 * resp_code.severity + 10 * resp_code.category + resp_code.detail))

----------------------------------------------------------------------------
(* The reply parsers on their own: the same lines are read by              *)
(* Client::get_reply with its ResponseParser, then by                      *)
(* SmtpConnection::read_response with parse_response                       *)

c250 == <<"2", "5", "0">>

c251 == <<"2", "5", "1">>

\* the lines a server may send
Lines ==
    { << >>, <<"2", "5">>, c250, c250 \o <<" ">>, c250 \o <<"-">>,
      c250 \o <<" ", "a">>, c250 \o <<"-", "a">>, c250 \o <<"-", "b">>,
      c251 \o <<" ", "a">>, c251 \o <<"-", "a">>, c250 \o <<"x", "a">>,
      <<"6", "5", "0", " ", "a">> }

ParserInit ==
    /\ SessionInit
    /\ encrypted = FALSE
    /\ NoHeadersCall
    /\ NoClient
    /\ NoDkim
    /\ NoSigning
    /\ NoCanon
    /\ NoEnvelopeCall
    /\ NoMessage
    /\ NoInfoCall
    /\ NoCodeCall
    /\ stream \in UNION {[1..n -> Lines] : n \in 0..MaxLines}
    /\ parser = ResponseParser_default
    /\ taken = 0
    /\ more = "none"
    /\ returned = NotParsed
    /\ buffered = 0
    /\ parsed = NotParsed

\* BufRead::read_line and remove_crlf: the next line, or nothing when the
\* stream has ended
next_line(n) == IF n < Len(stream) THEN stream[n + 1] ELSE << >>

\* Client::get_reply, one line at a time: the line is given to read_line;
\* its error is returned, or the loop goes on, or parser.response() is
\* returned
get_reply ==
    /\ returned.kind = "none"
    /\ LET r == read_line(parser, next_line(taken)) IN
       /\ taken' = IF taken < Len(stream) THEN taken + 1 ELSE taken
       /\ parser' = r.parser
       /\ more' = IF ~r.ok THEN "error" ELSE IF r.more THEN "yes" ELSE "no"
       /\ returned' = IF ~r.ok THEN Parsed("error", NoCode, << >>, r.why)
                   ELSE IF r.more THEN returned
                   ELSE Parsed("response", r.parser.code, r.parser.message, "")
    /\ UNCHANGED <<stream, buffered, parsed, exceptParserVars>>

\* SmtpConnection::read_response, one turn of its loop: a line is added to
\* the buffer and the buffer parsed, or the stream has ended
read_response_loop ==
    /\ returned.kind # "none"
    /\ parsed.kind = "none"
    /\ IF buffered = Len(stream)
       THEN /\ parsed' = Parsed("error", NoCode, << >>, "incomplete response")
            /\ UNCHANGED buffered
       ELSE /\ buffered' = buffered + 1
            /\ LET r == parse_response(SubSeq(stream, 1, buffered + 1)) IN
               parsed' = IF r.kind = "incomplete" THEN parsed ELSE r
    /\ UNCHANGED <<stream, parser, taken, more, returned, exceptParserVars>>

ParserNext == get_reply \/ read_response_loop

SpecParser == ParserInit /\ [][ParserNext]_vars

----------------------------------------------------------------------------
(* Properties of the reply parsers *)

\* the first three bytes of a line
CodeBytes(line) == SubSeq(line, 1, 3)

\* the first n lines of the stream start with the same three bytes
SameCode(n) ==
    \A i \in 1..n : Len(stream[i]) >= 3 /\ CodeBytes(stream[i]) = CodeBytes(stream[1])

\* C16: ResponseParser (through get_reply) and parse_response (through
\* read_response) yield a Response only when all the lines they took start
\* with the same code, which is the code of the Response; get_reply fails at
\* the first line whose code differs, and read_response never returns a
\* Response from lines whose codes differ.
C16_OneCodePerReply ==
    /\ returned.kind = "response" =>
          /\ taken >= 1
          /\ SameCode(taken)
          /\ code_string(returned.code) = CodeBytes(stream[1])
    /\ (taken >= 1 /\ ~SameCode(taken)) => returned.kind = "error"
    /\ parsed.kind = "response" =>
          /\ buffered >= 1
          /\ SameCode(buffered)
          /\ code_string(parsed.code) = CodeBytes(stream[1])
    /\ (parsed.kind # "none" /\ buffered >= 1 /\ ~SameCode(buffered)) => parsed.kind = "error"

C16_Witness ==
    /\ stream = <<c250 \o <<"-", "a">>, c251 \o <<" ", "a">> >>
    /\ taken = 2
    /\ returned = Parsed("error", NoCode, << >>, "Response code has changed during a reponse")
    /\ buffered = 2
    /\ parsed.kind = "error"

\* C17: when read_line accepts a line, it reports that more lines follow
\* exactly when the fourth byte of the line is '-', and that the line is the
\* last exactly when the fourth byte is SP or the line is the code alone.
C17_ContinuationByFourthByte ==
    more \in {"yes", "no"} =>
        LET line == stream[taken] IN
        /\ (more = "yes") <=> (Len(line) >= 4 /\ line[4] = "-")
        /\ (more = "no") <=> (Len(line) = 3 \/ (Len(line) >= 4 /\ line[4] = " "))

\* a well-formed reply: lines with one valid code, each but the last with
\* '-' as fourth byte, the last with SP as fourth byte or the code alone
WellFormed(lines) ==
    /\ lines # << >>
    /\ \A i \in 1..Len(lines) :
          /\ parse_code(lines[i]) # NoCode
          /\ CodeBytes(lines[i]) = CodeBytes(lines[1])
          /\ IF i < Len(lines)
             THEN Len(lines[i]) >= 4 /\ lines[i][4] = "-"
             ELSE Len(lines[i]) = 3 \/ lines[i][4] = " "

RECURSIVE Texts(_)
\* the texts of the lines of a reply, in order: the bytes after the fourth;
\* a line that is the code alone has none
Texts(lines) ==
    IF lines = << >> THEN << >>
    ELSE LET line == lines[1] IN
         (IF Len(line) >= 4 THEN <<SubSeq(line, 5, Len(line))>> ELSE << >>)
             \o Texts(Tail(lines))

\* C18: for a stream that holds one well-formed reply, get_reply and
\* read_response return the Response with the code of its lines and, as
\* message, the texts of its lines in the order received.
C18_TextsVerbatimInOrder ==
    WellFormed(stream) =>
        LET whole == Parsed("response", parse_code(stream[1]), Texts(stream), "") IN
        /\ returned.kind # "none" => returned = whole
        /\ parsed.kind # "none" => parsed = whole

\* the line announces another line
Continues(line) == Len(line) >= 4 /\ line[4] = "-"

\* the first n lines of the stream all announce another line
Unterminated(n) == n >= 1 /\ \A i \in 1..n : Continues(stream[i])

----------------------------------------------------------------------------
(* ServerInfo::from_response on its own: the message of any Response       *)

\* first lines: a domain, or no word at all
FirstLines == {<<"srv">>, <<"STARTTLS">>, << >>}

MechanismNames == {"PLAIN", "CRAM-MD5", "LOGIN"}

\* the capability lines a server may send: keywords in either case, unknown
\* keywords, AUTH lines, lines without a word
CapabilityLines ==
    {<<w>> : w \in {"STARTTLS", "starttls", "8BITMIME", "SMTPUTF8", "SIZE"}}
        \cup {<<"AUTH">> \o m : m \in UNION {[1..n -> MechanismNames] : n \in 1..MaxMechs}}
        \cup {<<"auth", "PLAIN">>, <<"AUTH", "plain">>, << >>}

ServerInfoInit ==
    /\ SessionInit
    /\ encrypted = FALSE
    /\ NoHeadersCall
    /\ NoClient
    /\ NoDkim
    /\ NoSigning
    /\ NoCanon
    /\ NoEnvelopeCall
    /\ NoMessage
    /\ NoCodeCall
    /\ NoParse
    /\ \E first \in FirstLines, caps \in UNION {[1..n -> CapabilityLines] : n \in 0..MaxCaps} :
          ehlo_message = <<first>> \o caps
    /\ info_out = NoInfo

\* ServerInfo::from_response(&response)
from_response_call ==
    /\ info_out.outcome = "none"
    /\ info_out' = from_response(ehlo_message)
    /\ UNCHANGED <<ehlo_message, exceptInfoVars>>

ServerInfoNext == from_response_call

SpecServerInfo == ServerInfoInit /\ [][ServerInfoNext]_vars

----------------------------------------------------------------------------
(* Properties of ServerInfo::from_response *)

\* a word in upper case (ASCII)
Upper(word) ==
    CASE word = "starttls" -> "STARTTLS"
      [] word = "auth" -> "AUTH"
      [] word = "plain" -> "PLAIN"
      [] OTHER -> word

\* the capability lines of the message given: those after the first
CapsGiven == {ehlo_message[i] : i \in 2..Len(ehlo_message)} \ {<< >>}

\* the mechanism names on the AUTH lines of the message given
MechanismsGiven ==
    UNION {{line[j] : j \in 2..Len(line)} : line \in {l \in CapsGiven : l[1] = "AUTH"}}

\* the feature from_response holds for a mechanism name, if it holds one
Holds(info, name) ==
    CASE name = "PLAIN" -> "Authentication(Plain)" \in info.features
      [] name = "CRAM-MD5" -> "Authentication(CramMd5)" \in info.features
      [] OTHER -> FALSE

\* C21: from_response matches keywords and mechanism names without regard
\* to ASCII case: a capability line whose keyword is STARTTLS in any case
\* enables StartTls, an AUTH line in any case naming PLAIN in any case
\* enables Authentication(Plain).
C21_KeywordsInAnyCase ==
    info_out.outcome = "ok" =>
        \A line \in CapsGiven :
            /\ Upper(line[1]) = "STARTTLS" => "StartTls" \in info_out.info.features
            /\ (Upper(line[1]) = "AUTH" /\ \E j \in 2..Len(line) : Upper(line[j]) = "PLAIN")
                  => "Authentication(Plain)" \in info_out.info.features

\* C22: for a message whose first line has a first word, from_response
\* returns Ok whatever the other lines hold.
C22_AlwaysOkWithFirstWord ==
    (first_word(ehlo_message) # "none" /\ info_out.outcome # "none") => info_out.outcome = "ok"

\* C23, as claimed: every mechanism name of an AUTH line is held by the
\* ServerInfo returned.
C23_EveryMechanismKept ==
    info_out.outcome = "ok" => \A name \in MechanismsGiven : Holds(info_out.info, name)

\* C23, amended: of the mechanism names of the AUTH lines, the ServerInfo
\* returned holds PLAIN and CRAM-MD5, as members of the feature set, and
\* no other.
C23_KnownMechanismsAsSet ==
    info_out.outcome = "ok" =>
        /\ \A name \in {"PLAIN", "CRAM-MD5"} :
              Holds(info_out.info, name) <=>
                  \E i \in 1..Len(ehlo_message) :
                      /\ ehlo_message[i][1] = "AUTH"
                      /\ \E j \in 2..Len(ehlo_message[i]) : ehlo_message[i][j] = name
        /\ info_out.info.features \subseteq
              {"EightBitMime", "SmtpUtfEight", "StartTls",
               "Authentication(Plain)", "Authentication(CramMd5)"}

C23_Witness ==
    /\ ehlo_message = << <<"srv">>, <<"AUTH", "LOGIN", "CRAM-MD5">>, <<"AUTH", "CRAM-MD5", "PLAIN">> >>
    /\ info_out.outcome = "ok"
    /\ info_out.info.features = {"Authentication(Plain)", "Authentication(CramMd5)"}


----------------------------------------------------------------------------
(* The message content on the wire: message() of the two clients, called *)
(* once with every content of up to MaxBody bytes                        *)

MaxBody == 5

BodyBytes == {Dot, CR, LF, "a"}

DataInit ==
    /\ SessionInit
    /\ encrypted = FALSE
    /\ NoHeadersCall
    /\ NoClient
    /\ NoDkim
    /\ NoSigning
    /\ NoCanon
    /\ NoEnvelopeCall
    /\ NoCodeCall
    /\ NoParse
    /\ NoInfoCall
    /\ body \in UNION {[1..n -> BodyBytes] : n \in 0..MaxBody}
    /\ stuffed = << >>
    /\ data_wire = << >>
    /\ data_writer = "none"

\* Client::message: send_server writes the escaped content and the ending
Client_message ==
    /\ data_writer = "none"
    /\ stuffed' = escape_dot(body)
    /\ data_wire' = escape_dot(body) \o MESSAGE_ENDING
    /\ data_writer' = "Client"
    /\ UNCHANGED <<body, exceptDataVars>>

\* SmtpConnection::message: the encoded content, then b"\r\n.\r\n"
SmtpConnection_message ==
    /\ data_writer = "none"
    /\ stuffed' = codec_encode(body)
    /\ data_wire' = codec_encode(body) \o <<CR, LF, Dot, CR, LF>>
    /\ data_writer' = "SmtpConnection"
    /\ UNCHANGED <<body, exceptDataVars>>

DataNext == Client_message \/ SmtpConnection_message

SpecData == DataInit /\ [][DataNext]_vars

\* str with one '.' put before every '.' at offset 0 or directly after a
\* byte of the set ends
RECURSIVE StuffedAfter(_, _, _)
StuffedAfter(str, ends, at_start) ==
    IF str = << >> THEN << >>
    ELSE (IF at_start /\ Head(str) = Dot THEN <<Dot, Dot>> ELSE <<Head(str)>>)
             \o StuffedAfter(Tail(str), ends, Head(str) \in ends)

\* C24: for every body, the dot-stuffed output is the body with exactly one
\* extra '.' before each '.' at offset 0 or directly after a CRLF or LF line
\* ending, every other byte unchanged: a '.' after a bare CR is not altered
C24_DotOnlyAtLineStart ==
    data_writer = "Client" => stuffed = StuffedAfter(body, {LF}, TRUE)

\* C24 as the code has it: escape_dot puts exactly one extra '.' before each
\* '.' at offset 0 or directly after a CR or an LF, a bare CR included, and
\* changes no other byte
C24_DotAfterCrOrLf ==
    data_writer = "Client" => stuffed = StuffedAfter(body, {CR, LF}, TRUE)

\* escape_dot was given a '.' after a bare CR and doubled it
C24_Witness ==
    /\ data_writer = "Client"
    /\ \E i \in 1..(Len(body) - 1) : body[i] = CR /\ body[i + 1] = Dot
    /\ Len(stuffed) > Len(body)

\* the bytes before the terminator
StripTerminator(bytes) ==
    IF ends_with(bytes, MESSAGE_ENDING)
    THEN SubSeq(bytes, 1, Len(bytes) - Len(MESSAGE_ENDING))
    ELSE bytes

\* one leading '.' taken from each line that starts with '.', a line being
\* what starts at offset 0 or after CRLF
RECURSIVE Unstuffed(_, _, _)
Unstuffed(str, at_start, after_cr) ==
    IF str = << >> THEN << >>
    ELSE IF at_start /\ Head(str) = Dot
         THEN Unstuffed(Tail(str), FALSE, FALSE)
         ELSE <<Head(str)>>
                  \o Unstuffed(Tail(str), after_cr /\ Head(str) = LF, Head(str) = CR)

\* C25: for every body, decoding the bytes written for the DATA phase (strip
\* the terminator, take one leading '.' from each line that starts with '.')
\* gives the body with every bare LF normalised to CRLF
C25_RoundTripNormalised ==
    data_writer # "none" =>
        Unstuffed(StripTerminator(data_wire), TRUE, FALSE)
            = normalize_line_endings(body, FALSE)

\* C26: the bytes written for the DATA phase are the dot-stuffed body, then
\* CRLF '.' CRLF when the body does not end with CRLF and only '.' CRLF when
\* it does
C26_TerminatorAfterLineEnd ==
    data_writer # "none" =>
        data_wire = stuffed \o (IF ends_with(body, CRLF)
                                THEN <<Dot, CR, LF>>
                                ELSE <<CR, LF, Dot, CR, LF>>)


----------------------------------------------------------------------------
(* Envelope::new and Envelope::try_from, called once with every argument *)
(* whose address lists hold up to MaxRcpt addresses                      *)

MailboxHeaders == {NoHeader} \cup {Header(t) : t \in RecipientLists}

HeadersGiven ==
    [sender : {NoHeader, Header(<<Ann>>)},
     from : {NoHeader, Header(<< >>), Header(<<Ann>>), Header(<<Zoe, Ann>>)},
     to : MailboxHeaders, cc : MailboxHeaders, bcc : MailboxHeaders]

EnvelopeInit ==
    /\ SessionInit
    /\ encrypted = FALSE
    /\ NoHeadersCall
    /\ NoClient
    /\ NoDkim
    /\ NoSigning
    /\ NoCanon
    /\ NoCodeCall
    /\ NoParse
    /\ NoInfoCall
    /\ NoMessage
    /\ env_call \in
           [fn : {"new"}, from : {NoAddress, Ann}, to : RecipientLists,
            headers : {NoHeaders}]
               \cup [fn : {"try_from"}, from : {NoAddress}, to : {<< >>},
                     headers : HeadersGiven]
    /\ env_out = NoEnvelope

new_call ==
    /\ env_call.fn = "new"
    /\ env_out.outcome = "none"
    /\ env_out' = Returned(Envelope_new(env_call.from, env_call.to))
    /\ UNCHANGED <<env_call, exceptEnvelopeVars>>

try_from_call ==
    /\ env_call.fn = "try_from"
    /\ env_out.outcome = "none"
    /\ env_out' = try_from(env_call.headers)
    /\ UNCHANGED <<env_call, exceptEnvelopeVars>>

EnvelopeNext == new_call \/ try_from_call

SpecEnvelope == EnvelopeInit /\ [][EnvelopeNext]_vars

\* C27: Envelope::new(from, to) fails with MissingTo if and only if `to` is
\* empty, and otherwise succeeds with to() and from() returning the values
\* given; every Envelope that new or try_from returned has a recipient
C27_EnvelopeHasRecipient ==
    /\ (env_call.fn = "new" /\ env_out.outcome # "none") =>
           /\ env_out.outcome \in {"ok", "err"}
           /\ (env_out.outcome = "err") <=> (env_call.to = << >>)
           /\ env_out.outcome = "err" => env_out.err = "MissingTo"
           /\ env_out.outcome = "ok" =>
                  /\ Envelope_to(env_out.envelope) = env_call.to
                  /\ Envelope_from(env_out.envelope) = env_call.from
    /\ env_out.outcome = "ok" => Len(Envelope_to(env_out.envelope)) >= 1

\* try_from made an envelope from headers with no To, from Cc and Bcc
C27_Witness ==
    /\ env_call.fn = "try_from"
    /\ ~env_call.headers.to.present
    /\ env_out.outcome = "ok"
    /\ Len(Envelope_to(env_out.envelope)) >= 2

----------------------------------------------------------------------------
(* dkim_canonicalize_body, called with every body of up to MaxDkimBody   *)
(* bytes and then with what it returned                                   *)

MaxDkimBody == 4

DkimBodyBytes == {CR, LF, Space, Tab, "a"}

CanonInit ==
    /\ SessionInit
    /\ encrypted = FALSE
    /\ NoHeadersCall
    /\ NoClient
    /\ NoDkim
    /\ NoSigning
    /\ NoCodeCall
    /\ NoParse
    /\ NoInfoCall
    /\ NoMessage
    /\ NoEnvelopeCall
    /\ dkim_body \in UNION {[1..n -> DkimBodyBytes] : n \in 0..MaxDkimBody}
    /\ canonicalization \in {"Simple", "Relaxed"}
    /\ canon_out = << >>

\* the first call is given dkim_body, the second the result of the first
dkim_canonicalize_body_call ==
    /\ Len(canon_out) < 2
    /\ canon_out' =
           Append(canon_out,
                  dkim_canonicalize_body(
                      IF canon_out = << >> THEN dkim_body ELSE canon_out[1],
                      canonicalization))
    /\ UNCHANGED <<dkim_body, canonicalization, exceptCanonVars>>

CanonNext == dkim_canonicalize_body_call

SpecCanon == CanonInit /\ [][CanonNext]_vars

\* C28: for every body, simple body canonicalization returns the body with
\* all its trailing empty lines removed, ending with exactly one CRLF, and
\* returns CRLF for the empty body
C28_SimpleEndsWithOneCrlf ==
    (canonicalization = "Simple" /\ canon_out # << >>) =>
        canon_out[1] = without_trailing_crlfs(dkim_body) \o CRLF

\* C29: for every body and both modes, canonicalizing the canonicalized body
\* returns it unchanged
C29_CanonicalizeIdempotent ==
    Len(canon_out) = 2 => canon_out[2] = canon_out[1]

\* a relaxed canonicalization that changed the body was applied again
C29_Witness ==
    /\ Len(canon_out) = 2
    /\ canonicalization = "Relaxed"
    /\ canon_out[1] # dkim_body
    /\ \E i \in 1..Len(dkim_body) : dkim_body[i] = Tab

----------------------------------------------------------------------------
(* dkim_canonicalize_headers, called once with every list of up to       *)
(* MaxListed names and every message of up to MaxHeaders headers, which   *)
(* append_raw put there one after the other                                *)

MaxListed == 2
MaxHeaders == 2

ListedNames == {"From", "from", "to", "Subject"}
MailNames == {"From", "FROM", "To"}
RawValues == {<<"a">>, <<"b", Space, Tab, "c", Space>>}

RECURSIVE appended(_, _)
appended(pairs, i) ==
    IF i = 0 THEN << >>
    ELSE append_raw(appended(pairs, i - 1), pairs[i][1], pairs[i][2])

SignedInit ==
    /\ SessionInit
    /\ encrypted = FALSE
    /\ NoHeadersCall
    /\ NoClient
    /\ NoDkim
    /\ NoCodeCall
    /\ NoParse
    /\ NoInfoCall
    /\ NoMessage
    /\ NoEnvelopeCall
    /\ NoCanon
    /\ headers_list \in UNION {[1..n -> ListedNames] : n \in 0..MaxListed}
    /\ \E pairs \in UNION {[1..n -> MailNames \X RawValues] : n \in 0..MaxHeaders} :
           mail_headers = appended(pairs, Len(pairs))
    /\ header_canon \in {"Simple", "Relaxed"}
    /\ signed_out = NoSigned

dkim_canonicalize_headers_call ==
    /\ ~signed_out.called
    /\ signed_out' =
           [called |-> TRUE,
            text |-> dkim_canonicalize_headers(headers_list, mail_headers, header_canon, 1)]
    /\ UNCHANGED <<headers_list, mail_headers, header_canon, exceptSignedVars>>

SignedNext == dkim_canonicalize_headers_call

SpecSigned == SignedInit /\ [][SignedNext]_vars

\* the message holds a header of that name, whatever the case
InMessage(name) ==
    \E i \in 1..Len(mail_headers) : eq_ignore_ascii_case(name, mail_headers[i].name)

\* the last header of that name in the message
LastOccurrence(name) ==
    CHOOSE i \in 1..Len(mail_headers) :
        /\ eq_ignore_ascii_case(name, mail_headers[i].name)
        /\ \A j \in (i + 1)..Len(mail_headers) :
               ~eq_ignore_ascii_case(name, mail_headers[j].name)

\* C30: dkim_canonicalize_headers emits the signed headers in the order of
\* the configured list, matching names whatever their case and skipping the
\* names the message does not hold, and for a name the message holds several
\* times it uses the last occurrence
C30_ListedOrderLastOccurrence ==
    signed_out.called =>
        LET found == SelectSeq(headers_list, InMessage)
        IN  /\ Len(signed_out.text) = Len(found)
            /\ \A i \in 1..Len(found) :
                  /\ eq_ignore_ascii_case(signed_out.text[i].name, found[i])
                  /\ signed_out.text[i].value =
                         dkim_canonicalize_header_value(
                             mail_headers[LastOccurrence(found[i])].value, header_canon)
                             \o (IF header_canon = "Simple" THEN CRLF ELSE << >>)

----------------------------------------------------------------------------
(* A DkimConfig made by default_config or DkimConfig::new, changed by    *)
(* update_key, and one message signed with it                             *)

ConfigHeaders == {DefaultHeaders, <<"from", "to">>}

BodiesToSign == {<< >>, <<"a", CR, LF, CR, LF>>}

DkimInit ==
    /\ SessionInit
    /\ encrypted = FALSE
    /\ NoHeadersCall
    /\ NoClient
    /\ NoCodeCall
    /\ NoParse
    /\ NoInfoCall
    /\ NoMessage
    /\ NoEnvelopeCall
    /\ NoCanon
    /\ NoSigning
    /\ dkim_config = NoConfig
    /\ dkim_panicked = FALSE
    /\ \E pairs \in UNION {[1..n -> MailNames \X RawValues] : n \in 0..MaxHeaders},
          b \in BodiesToSign :
           dkim_message = [headers |-> appended(pairs, Len(pairs)), body |-> b]
    /\ dkim_unsigned = NotSigned

\* a constructor: the config when DkimSigningKey::new returned a key, a
\* panic otherwise
Constructed(variant, made) ==
    /\ ~dkim_panicked
    /\ dkim_unsigned = NotSigned
    /\ IF variant = "panic"
       THEN dkim_panicked' = TRUE /\ UNCHANGED dkim_config
       ELSE dkim_config' = made /\ UNCHANGED dkim_panicked
    /\ UNCHANGED <<dkim_message, dkim_unsigned, exceptDkimVars>>

\* DkimConfig::default_config
default_config ==
    /\ ~dkim_config.made
    /\ \E private_key \in KeyStrings :
         LET variant == DkimSigningKey_new(private_key, "Rsa")
         IN  Constructed(variant,
                 DkimConfig(variant, DefaultHeaders, "Simple", "Relaxed", "Rsa"))

\* DkimConfig::new
DkimConfig_new ==
    /\ ~dkim_config.made
    /\ \E private_key \in KeyStrings, headers \in ConfigHeaders,
          canon_h \in {"Simple", "Relaxed"}, signing_algorithm \in Algorithms :
         LET variant == DkimSigningKey_new(private_key, "Rsa")
         IN  Constructed(variant,
                 DkimConfig(variant, headers, canon_h, "Relaxed", signing_algorithm))

\* DkimConfig::update_key: signing_algorithm is assigned before the key is
\* read, so a panic leaves the new algorithm with the old key
update_key ==
    /\ dkim_config.made
    /\ \E private_key \in KeyStrings, algorithm \in Algorithms :
         LET variant == DkimSigningKey_new(private_key, algorithm)
         IN  Constructed(variant,
                 [dkim_config EXCEPT !.signing_algorithm = algorithm,
                                     !.private_key = variant])

\* dkim_sign(&mut message, &dkim_config)
dkim_sign_call ==
    /\ dkim_config.made
    /\ ~dkim_panicked
    /\ dkim_unsigned = NotSigned
    /\ dkim_unsigned' = [called |-> TRUE, message |-> dkim_message]
    /\ dkim_message' = dkim_sign(dkim_message, dkim_config)
    /\ UNCHANGED <<dkim_config, dkim_panicked, exceptDkimVars>>

DkimNext == default_config \/ DkimConfig_new \/ update_key \/ dkim_sign_call

SpecDkim == DkimInit /\ [][DkimNext]_vars

\* C31: in every DkimConfig that default_config, DkimConfig::new or
\* update_key produced the signing_algorithm and the variant of the private
\* key agree, so the a= tag dkim_sign writes names the algorithm that made b=
C31_AlgorithmIsKeyVariant ==
    (dkim_config.made /\ ~dkim_panicked) =>
        dkim_config.signing_algorithm = dkim_config.private_key

\* C32: dkim_sign changes the message only by appending one DKIM-Signature
\* header: the headers it had are all there with their values in their
\* order, the body is the same and there is exactly one header more
C32_SignOnlyAppends ==
    dkim_unsigned.called =>
        LET before == dkim_unsigned.message
        IN  /\ Len(dkim_message.headers) = Len(before.headers) + 1
            /\ SubSeq(dkim_message.headers, 1, Len(before.headers)) = before.headers
            /\ dkim_message.headers[Len(dkim_message.headers)].name = "DKIM-Signature"
            /\ dkim_message.body = before.body

\* a message with two headers and a body was signed
C32_Witness ==
    /\ dkim_unsigned.called
    /\ Len(dkim_unsigned.message.headers) >= 2
    /\ dkim_unsigned.message.body # << >>

----------------------------------------------------------------------------
(* The Client from Client::new on, and an SmtpConnection's stream *)

ClientInit ==
    /\ SessionInit
    /\ encrypted = FALSE
    /\ NoHeadersCall
    /\ NoCodeCall
    /\ NoParse
    /\ NoInfoCall
    /\ NoMessage
    /\ NoEnvelopeCall
    /\ NoCanon
    /\ NoSigning
    /\ NoDkim
    /\ client_stream = NoStream
    /\ conn_stream = NewStream
    /\ client_last = NoCall

\* Client::connect: refused when a stream is held; else the address is
\* resolved, the stream connected and set, and the greeting read
Client_connect ==
    /\ IF client_stream.some
       THEN /\ client_last' = Called("connect", 0, TRUE, FALSE,
                                     "The connection is already established")
            /\ UNCHANGED client_stream
       ELSE \/ \E why \in {"to_socket_addrs", "Could not resolve hostname", "connect"} :
                 /\ client_last' = Called("connect", 0, FALSE, FALSE, why)
                 /\ UNCHANGED client_stream
            \/ \E greeting \in GetReplies :
                 /\ client_stream' = NewStream
                 /\ client_last' = Called("connect", 0, FALSE, FALSE, greeting)
    /\ UNCHANGED <<conn_stream, exceptClientVars>>

\* Client::close: let _ = self.quit(); self.stream = None
Client_close ==
    /\ client_stream' = NoStream
    /\ client_last' = Called("close", 0, client_stream.some, client_stream.some, "")
    /\ UNCHANGED <<conn_stream, exceptClientVars>>

\* Client::command, through send_server and get_reply
Client_command ==
    /\ IF ~client_stream.some
       THEN client_last' = Called("command", 0, FALSE, FALSE, "Connection closed")
       ELSE \E why \in GetReplies \cup {"write"} :
              client_last' = Called("command", 0, TRUE, why # "write", why)
    /\ UNCHANGED <<client_stream, conn_stream, exceptClientVars>>

\* Client::set_timeout
Client_set_timeout ==
    /\ \E duration \in Durations, first_ok \in BOOLEAN, second_ok \in BOOLEAN :
         IF ~client_stream.some
         THEN /\ client_last' = Called("Client::set_timeout", duration, FALSE, FALSE, "")
              /\ UNCHANGED client_stream
         ELSE /\ client_stream' = Client_timeouts(client_stream, duration, first_ok, second_ok)
              /\ client_last' = Called("Client::set_timeout", duration, TRUE, FALSE,
                                       IF first_ok /\ second_ok THEN "" ELSE "io")
    /\ UNCHANGED <<conn_stream, exceptClientVars>>

\* SmtpConnection::set_timeout
SmtpConnection_set_timeout ==
    /\ \E duration \in Durations, first_ok \in BOOLEAN, second_ok \in BOOLEAN :
         /\ conn_stream' = SmtpConnection_timeouts(conn_stream, duration, first_ok, second_ok)
         /\ client_last' = Called("SmtpConnection::set_timeout", duration, TRUE, FALSE,
                                  IF first_ok /\ second_ok THEN "" ELSE "io")
    /\ UNCHANGED <<client_stream, exceptClientVars>>

ClientNext ==
    \/ Client_connect
    \/ Client_close
    \/ Client_command
    \/ Client_set_timeout
    \/ SmtpConnection_set_timeout

SpecClient == ClientInit /\ [][ClientNext]_vars

\* C33: set_timeout with a duration d, on the Client and on the
\* SmtpConnection, sets both the read and the write deadline of the stream
\* to d when it returns Ok on a connected session
C33_TimeoutOnReadAndWrite ==
    /\ (client_last.op = "Client::set_timeout" /\ client_last.ok /\ client_last.held) =>
           /\ client_stream.read_timeout = client_last.arg
           /\ client_stream.write_timeout = client_last.arg
    /\ (client_last.op = "SmtpConnection::set_timeout" /\ client_last.ok) =>
           /\ conn_stream.read_timeout = client_last.arg
           /\ conn_stream.write_timeout = client_last.arg

\* C40: when connect returns an error the client holds no stream; connect
\* on a client that holds a stream fails with "The connection is already
\* established" and leaves the stream; after close() a command fails with
\* "Connection closed" and writes nothing
C40_FailedConnectHoldsNoStream ==
    /\ (client_last.op = "connect" /\ ~client_last.ok /\ ~client_last.held) =>
           ~client_stream.some
    /\ (client_last.op = "connect" /\ client_last.held) =>
           /\ client_last.err = "The connection is already established"
           /\ client_stream.some
    /\ client_last.op = "close" => ~client_stream.some
    /\ (client_last.op = "command" /\ ~client_last.held) =>
           /\ client_last.err = "Connection closed"
           /\ ~client_last.wrote

----------------------------------------------------------------------------
(* A Headers from Headers::new on, under insert_raw, set, remove_raw,    *)
(* remove and clear                                                       *)

RawNames == {"From", "FROM", "To", "to", "Subject"}

\* H::name() of the typed headers
TypedNames == {"From", "To", "Subject"}

HeaderTexts == {<<"a">>, <<"b">>}

HeadersInit ==
    /\ SessionInit
    /\ encrypted = FALSE
    /\ NoCodeCall
    /\ NoParse
    /\ NoInfoCall
    /\ NoMessage
    /\ NoEnvelopeCall
    /\ NoCanon
    /\ NoSigning
    /\ NoDkim
    /\ NoClient
    /\ the_headers = << >>
    /\ headers_last = NoHeadersCalled

Headers_insert_raw ==
    /\ \E name \in RawNames, raw_value \in HeaderTexts :
         /\ the_headers' = insert_raw(the_headers, HeaderValue(name, raw_value))
         /\ headers_last' = HeadersCall("insert_raw", HeaderValue(name, raw_value),
                                        the_headers, 0)
    /\ UNCHANGED exceptHeadersVars

\* Headers::set: insert_raw(header.display())
Headers_set ==
    /\ \E name \in TypedNames, raw_value \in HeaderTexts :
         /\ the_headers' = insert_raw(the_headers, HeaderValue(name, raw_value))
         /\ headers_last' = HeadersCall("set", HeaderValue(name, raw_value),
                                        the_headers, 0)
    /\ UNCHANGED exceptHeadersVars

Headers_remove_raw ==
    /\ \E name \in RawNames :
         /\ the_headers' = remove_raw(the_headers, name)
         /\ headers_last' = HeadersCall("remove_raw", HeaderValue(name, << >>),
                                        the_headers, find_header(the_headers, name))
    /\ UNCHANGED exceptHeadersVars

\* Headers::remove: remove_raw(&H::name()), then the value parsed
Headers_remove ==
    /\ \E name \in TypedNames :
         /\ the_headers' = remove_raw(the_headers, name)
         /\ headers_last' = HeadersCall("remove", HeaderValue(name, << >>),
                                        the_headers, find_header(the_headers, name))
    /\ UNCHANGED exceptHeadersVars

Headers_clear ==
    /\ the_headers' = << >>
    /\ headers_last' = HeadersCall("clear", HeaderValue("", << >>), the_headers, 0)
    /\ UNCHANGED exceptHeadersVars

HeadersNext ==
    \/ Headers_insert_raw
    \/ Headers_set
    \/ Headers_remove_raw
    \/ Headers_remove
    \/ Headers_clear

SpecHeaders == HeadersInit /\ [][HeadersNext]_vars

\* the indices of the headers of that name, whatever the case
Matching(headers, name) ==
    {i \in 1..Len(headers) : eq_ignore_ascii_case(name, headers[i].name)}

\* C34: from an empty Headers, under insert_raw, set, remove_raw, remove and
\* clear, no two headers have names equal whatever the case; insert_raw of
\* a name that is present replaces that header in place and changes no
\* other, insert_raw of a new name appends; remove_raw removes exactly the
\* matching header and returns it
C34_NoTwoHeadersOfOneName ==
    /\ \A i, j \in 1..Len(the_headers) :
          eq_ignore_ascii_case(the_headers[i].name, the_headers[j].name) => i = j
    /\ headers_last.op = "insert_raw" =>
          LET before == headers_last.before
              found == Matching(before, headers_last.given.name)
          IN  IF found = {}
              THEN the_headers = Append(before, headers_last.given)
              ELSE /\ Len(the_headers) = Len(before)
                   /\ \A i \in 1..Len(before) :
                         the_headers[i] = IF i \in found THEN headers_last.given
                                          ELSE before[i]
    /\ headers_last.op = "remove_raw" =>
          LET before == headers_last.before
              found == Matching(before, headers_last.given.name)
          IN  /\ (headers_last.at = 0) <=> (found = {})
              /\ headers_last.at # 0 => found = {headers_last.at}
              /\ Len(the_headers) = Len(before) - Cardinality(found)
              /\ \A i \in 1..Len(the_headers) :
                    the_headers[i] = before[IF headers_last.at # 0 /\ i >= headers_last.at
                                            THEN i + 1 ELSE i]

\* insert_raw replaced the first of three headers under another spelling
\* of its name
C34_Witness ==
    /\ headers_last.op = "insert_raw"
    /\ Len(headers_last.before) = 3
    /\ Len(the_headers) = 3
    /\ the_headers[1] # headers_last.before[1]
    /\ the_headers[1].name # headers_last.before[1].name

----------------------------------------------------------------------------
(* More properties of the session, of from_response and of the DATA bytes *)

\* C35: the engine never writes STARTTLS on a connection that is already
\* encrypted, even when the latest EHLO reply advertises STARTTLS
C35_NoStarttlsWhenEncrypted ==
    ~(/\ op = "starttls"
      /\ pc = "starttls_r"
      /\ encrypted
      /\ HasVerb(wire, "STARTTLS"))

\* C36: only the lines after the first line of an EHLO reply contribute
\* features; a keyword that begins the first line enables nothing
C36_FirstLineGivesNoFeature ==
    info_out.outcome = "ok" =>
        info_out.info.features
            = UNION {line_features(ehlo_message[i]) : i \in 2..Len(ehlo_message)}

\* where pat occurs in bytes
Occurrences(bytes, pat) ==
    {i \in 1..(Len(bytes) - Len(pat) + 1) : SubSeq(bytes, i, i + Len(pat) - 1) = pat}

\* C37: for every body, the bytes written for the DATA phase hold the
\* sequence CRLF '.' CRLF exactly once, at their very end, and do not begin
\* with '.' CRLF
C37_EndOfDataOnlyAtEnd ==
    data_writer # "none" =>
        /\ Occurrences(data_wire, MESSAGE_ENDING) = {Len(data_wire) - 4}
        /\ ~starts_with(data_wire, <<Dot, CR, LF>>)

\* the body that is the end-of-data marker itself was written by the Client
C37_Witness ==
    /\ data_writer = "Client"
    /\ body = <<CR, LF, Dot, CR, LF>>
    /\ Len(data_wire) = 11

\* the QUIT commands the running operation has written
Quits == {i \in 1..Len(wire) : wire[i].verb = "QUIT"}

\* C38: the engine writes QUIT at most once on a connection; when quit()
\* fails, or abort() follows a quit(), no second QUIT is written
C38_QuitAtMostOnce == Cardinality(Quits) <= 1

\* C39: every SmtpConnection that connect returns has read a positive
\* greeting and then a positive EHLO reply; before them nothing but EHLO
\* (and the QUIT of a failing connect) is written, and a connect whose
\* greeting or EHLO fails returns an error and no session
C39_SessionAfterGreetingAndEhlo ==
    /\ pc = "greeting" => wire = << >>
    /\ op = "connect" =>
           /\ \A i \in 1..Len(wire) : wire[i].verb \in {"EHLO", "QUIT"}
           /\ HasVerb(wire, "EHLO") => accepted >= 1
           /\ pc = "idle" => result.ok /\ accepted = 2 /\ ehlo_reply.seen
           /\ pc = "dead" => ~result.ok
    /\ op # "connect" => ehlo_reply.seen

\* connect has returned a session: greeting and EHLO accepted, EHLO the
\* only command written
C39_Witness ==
    /\ op = "connect"
    /\ pc = "idle"
    /\ result.ok
    /\ accepted = 2
    /\ wire = <<Item("EHLO", "")>>

====
